---- MODULE Spec2Model ----
(***************************************************************************)
(* MeoCord event-dispatch core.                                            *)
(*                                                                         *)
(*   Spec      : command registration at load time, then interaction       *)
(*               dispatch (MeoCordApp.handleInteraction), one event at a   *)
(*               time.                                                     *)
(*   GuardSpec : methods wrapped by @UseGuard, called concurrently         *)
(*               (calls interleave at the await of a guard's canActivate). *)
(*   MessageSpec : @MessageHandler registration, then message dispatch     *)
(*               (handleMessage), one event at a time.                     *)
(*   ReactionSpec : @ReactionHandler registration, then reaction dispatch  *)
(*               (handleReaction), one event at a time.                    *)
(*   CacheSpec : interaction, message and reaction events reaching the     *)
(*               same controllers (the controller instance cache).         *)
(*   ShutdownSpec, ShutdownLive : termination signals arriving while       *)
(*               messages are dispatched (gracefulShutdown).               *)
(*   RegisterSpec : @Command registration with and without builders, then  *)
(*               'ready' and registerCommands.                             *)
(*   OverlapSpec : events received while the handlers of earlier events    *)
(*               are still awaited.                                        *)
(*   PatternSpec : createRegexFromPattern and the compiled expression on   *)
(*               their own.                                                *)
(*   LifecycleSpec : registration, 'ready' with registerCommands, and the  *)
(*               three kinds of events of one running application.         *)
(*   GuardedDispatchSpec : interaction dispatch whose handler methods are  *)
(*               wrapped by @UseGuard.                                     *)
(*   DrainSpec : termination signals arriving while interactions,          *)
(*               messages and reactions are dispatched.                    *)
(*   BootSpec, BootLive : the class decorators binding classes to the      *)
(*               container in any order, then MeoCordFactory.create and    *)
(*               start.                                                    *)
(*                                                                         *)
(* Strings are sequences of one-character strings, so that pattern         *)
(* compilation and matching are computed character by character.           *)
(***************************************************************************)
EXTENDS Integers, Sequences, FiniteSets, TLC

VARIABLES
  phase,          \* "load" while decorators run, "run" once start() attached the listeners
  commandMaps,    \* per controller: its command map, entries in insertion order
  regCount,       \* number of @Command registrations made so far
  cache,          \* controllerInstancesCache: the keys that have a cached instance
  hi,             \* position of the handleInteraction call: "idle", "awaitHandler", "resolved", "rejected"
  interaction,    \* the interaction being dispatched (kind, identifier, options, dynamicParams)
  invoked,        \* handler invocations made for the current event, in order
  replies,        \* replies the dispatcher sent for the current event, in order
  logs,           \* warn / error log records of the current event, in order
  gcalls,         \* per call of a guarded method: its position in the UseGuard wrapper and its trace
  instances,      \* the guard instances the container has handed out, with their fields
  messageHandlers,  \* per controller: the stored list of @MessageHandler entries
  reactionHandlers, \* per controller: the stored list of @ReactionHandler entries
  handlerCount,   \* number of @MessageHandler / @ReactionHandler registrations made so far
  event,          \* the message or reaction event being dispatched and the position of its dispatch
  trace,          \* what the dispatch of the current message or reaction event did, in order
  isShuttingDown, \* MeoCordApp.isShuttingDown
  listening,      \* the client has the event listeners of start() attached
  shutdowns,      \* the gracefulShutdown invocations made so far, each with its position
  effects,        \* what gracefulShutdown did to the client and the process, in order
  application,    \* bot.application is set (the client is ready)
  setCalls,       \* the application.commands.set calls made so far
  readyEvents,    \* number of 'ready' events the client has emitted
  events,         \* the message events received so far when events overlap, each with its dispatch
  regexRun,       \* one compilation of a pattern and one run of the compiled expression
  container,      \* mainContainer: the classes bound, each with its scope
  binding,        \* the decorator that is binding classes: the pending calls of its binding routine
  boot            \* what the decorators and MeoCordFactory.create have done to the root class

dvars == <<phase, commandMaps, regCount, cache, hi, interaction, invoked, replies, logs>>
gvars == <<gcalls, instances>>
mvars == <<messageHandlers, reactionHandlers, handlerCount, event, trace>>
svars == <<isShuttingDown, listening, shutdowns, effects>>
rvars == <<application, setCalls, readyEvents>>
cvars == <<events>>
pvars == <<regexRun>>
bvars == <<container, binding, boot>>
nvars == <<cvars, pvars, bvars>>
vars == <<phase, commandMaps, regCount, cache, hi, interaction, invoked, replies, logs,
          gcalls, instances, messageHandlers, reactionHandlers, handlerCount, event, trace,
          isShuttingDown, listening, shutdowns, effects, application, setCalls, readyEvents,
          events, regexRun, container, binding, boot>>

----------------------------------------------------------------------------
(* Bounds *)

MaxCommands == 2      \* @Command registrations over all controllers
MaxCalls == 2         \* calls of guarded methods in one run
MaxHandlers == 4      \* @MessageHandler / @ReactionHandler registrations over all controllers
MaxSignals == 2       \* termination signals the process receives
MaxReady == 2         \* 'ready' events the client emits
MaxEvents == 2        \* message events received while events overlap
MaxDepth == 6         \* nested calls of a binding routine

----------------------------------------------------------------------------
(* Strings *)

S_ping == <<"p", "i", "n", "g">>
S_profile_id == <<"p", "r", "o", "f", "i", "l", "e", "-", "{", "i", "d", "}">>
S_profile_42 == <<"p", "r", "o", "f", "i", "l", "e", "-", "4", "2">>
S_profile_4_2 == <<"p", "r", "o", "f", "i", "l", "e", "-", "4", " ", "2">>
S_id == <<"i", "d">>
S_42 == <<"4", "2">>
S_profile_4x == <<"p", "r", "o", "f", "i", "l", "e", "-", "4", "x">>
S_x == <<"x">>
S_4x == <<"4", "x">>
S_4_2 == <<"4", " ", "2">>
S_bare_id == <<"{", "i", "d", "}">>
S_id_dash_x == <<"{", "i", "d", "}", "-", "{", "x", "}">>
S_id_x == <<"{", "i", "d", "}", "{", "x", "}">>
S_p_dot_id == <<"p", ".", "{", "i", "d", "}">>
S_x_bad_name == <<"x", "-", "{", "b", "a", "d", "-", "n", "a", "m", "e", "}">>
S_x_empty == <<"x", "-", "{", "}">>
S_digit_name == <<"x", "-", "{", "2", "x", "}">>
S_id_dash_id == <<"{", "i", "d", "}", "-", "{", "i", "d", "}">>

Letters == {"p", "r", "o", "f", "i", "l", "e", "n", "g", "d", "x", "a", "b", "m"}
Digits == {"2", "4"}
AlnumChars == Letters \cup Digits
WordChars == AlnumChars \cup {"_"}

Drop(s, k) == SubSeq(s, k + 1, Len(s))

\* length of the longest prefix of s made of characters of cs
RECURSIVE PrefixLen(_, _)
PrefixLen(s, cs) ==
  IF s = <<>> \/ Head(s) \notin cs THEN 0 ELSE 1 + PrefixLen(Tail(s), cs)

----------------------------------------------------------------------------
(* Pattern compiler *)

Lit(c) == [kind |-> "lit", val |-> <<c>>]
Group(name) == [kind |-> "group", val |-> name]

\* /\{(\w+)}/ at the head of s: an opening brace, one or more word characters, a closing brace
PlaceholderLen(s) ==
  IF s # <<>> /\ Head(s) = "{"
  THEN LET w == PrefixLen(Tail(s), WordChars)
       IN IF w > 0 /\ Len(s) >= w + 2 /\ s[w + 2] = "}" THEN w + 2 ELSE 0
  ELSE 0

\* the regular expression as a sequence of items: literal characters (escaped or
\* plain) and named groups (?<name>[a-zA-Z0-9]+); the whole is anchored by Exec
RECURSIVE RegexItems(_)
RegexItems(pattern) ==
  IF pattern = <<>> THEN <<>>
  ELSE LET n == PlaceholderLen(pattern)
       IN IF n > 0
          THEN <<Group(SubSeq(pattern, 2, n - 1))>> \o RegexItems(Drop(pattern, n))
          ELSE <<Lit(Head(pattern))>> \o RegexItems(Tail(pattern))

GroupNames(items) == {items[i].val : i \in {j \in DOMAIN items : items[j].kind = "group"}}

IsGroup(it) == it.kind = "group"

\* the test `!/^\w+$/.test(param)` of the replace callback
InvalidParameterName(param) ==
  param = <<>> \/ \E i \in DOMAIN param : param[i] \notin WordChars

\* new RegExp accepts (?<name>...) when the name is an identifier and names no other group
IsGroupSpecifier(groups, i) ==
  /\ groups[i].val[1] \notin Digits
  /\ \A j \in DOMAIN groups : groups[j].val = groups[i].val => j = i

\* how the compilation of the pattern ends: with a regular expression ("none"), with
\* the Error of the replace callback, or with the SyntaxError of new RegExp
CompileError(groups) ==
  IF \E i \in DOMAIN groups : InvalidParameterName(groups[i].val) THEN "InvalidParameterName"
  ELSE IF \E i \in DOMAIN groups : ~IsGroupSpecifier(groups, i) THEN "SyntaxError"
  ELSE "none"

createRegexFromPattern(pattern) ==
  [regex |-> [defined |-> CompileError(SelectSeq(RegexItems(pattern), IsGroup)) = "none",
              items |-> RegexItems(pattern)],
   params |-> SelectSeq(RegexItems(pattern), IsGroup),
   error |-> CompileError(SelectSeq(RegexItems(pattern), IsGroup))]

NoRegex == [defined |-> FALSE, items |-> <<>>]
NoMatch == [ok |-> FALSE, groups |-> <<>>]

\* variant: the group is (?<name>\d+)
GroupChars_DigitsOnly == Digits

\* the character class of a named group, [a-zA-Z0-9]
GroupChars == AlnumChars

\* anchored match ^items$ on s; a group takes as many alphanumerics as it can
\* while the rest still matches (greedy, backtracking)
RECURSIVE MatchItems(_, _)
MatchItems(items, s) ==
  IF items = <<>>
  THEN IF s = <<>> THEN [ok |-> TRUE, groups |-> <<>>] ELSE NoMatch
  ELSE LET h == Head(items)
       IN IF h.kind = "lit"
          THEN IF s # <<>> /\ Head(s) = h.val[1] THEN MatchItems(Tail(items), Tail(s)) ELSE NoMatch
          ELSE LET ks == {k \in 1..PrefixLen(s, GroupChars) : MatchItems(Tail(items), Drop(s, k)).ok}
               IN IF ks = {} THEN NoMatch
                  ELSE LET k == CHOOSE x \in ks : \A y \in ks : y <= x
                           rest == MatchItems(Tail(items), Drop(s, k))
                       IN [ok |-> TRUE, groups |-> (h.val :> SubSeq(s, 1, k)) @@ rest.groups]

\* regex.exec(s): the match and, when the expression has named groups, match.groups
Exec(regex, s) ==
  LET m == MatchItems(regex.items, s)
  IN [ok |-> m.ok,
      hasGroups |-> m.ok /\ GroupNames(regex.items) # {},
      groups |-> m.groups]

----------------------------------------------------------------------------
(* Metadata registry *)

CommandType == {"SLASH", "BUTTON", "CONTEXT_MENU", "SELECT_MENU", "MESSAGE", "MODAL_SUBMIT"}

\* the controllers handed to the MeoCordApp constructor, in registration order
controllers == <<"PingController", "ProfileController">>

Controllers == {controllers[k] : k \in DOMAIN controllers}

\* identifiers and patterns handlers are registered under
CommandNames == {S_ping, S_profile_id}

\* the metadata entry the @Command decorator stores for one decorated method
CommandMetadata(commandName, commandType, propertyKey, builderInstance) ==
  [methodName |-> propertyKey,
   builder |-> builderInstance,
   type |-> commandType,
   regex |-> IF commandType # "SLASH" /\ commandType # "CONTEXT_MENU"
             THEN createRegexFromPattern(commandName).regex
             ELSE NoRegex]

HasName(commandMap, name) == \E i \in DOMAIN commandMap : commandMap[i].name = name

IndexOfName(commandMap, name) == CHOOSE i \in DOMAIN commandMap : commandMap[i].name = name

\* variant: `commands[commandName] = {...}`, the entry replaces what the identifier had
registerCommand_Overwrite(commandMap, name, meta) ==
  IF HasName(commandMap, name)
  THEN [commandMap EXCEPT ![IndexOfName(commandMap, name)].metas = <<meta>>]
  ELSE Append(commandMap, [name |-> name, metas |-> <<meta>>])

\* appends the metadata under the identifier; a new identifier goes last in the map
registerCommand(commandMap, name, meta) ==
  IF HasName(commandMap, name)
  THEN [commandMap EXCEPT ![IndexOfName(commandMap, name)].metas = Append(@, meta)]
  ELSE Append(commandMap, [name |-> name, metas |-> <<meta>>])

\* commandMap[name]: the entry array, or undefined
Lookup(commandMap, name) ==
  IF HasName(commandMap, name)
  THEN [defined |-> TRUE, metas |-> commandMap[IndexOfName(commandMap, name)].metas]
  ELSE [defined |-> FALSE, metas |-> <<>>]

\* undefined when nothing was registered on the controller
getCommandMap(c) == [defined |-> commandMaps[c] # <<>>, map |-> commandMaps[c]]

----------------------------------------------------------------------------
(* Interactions *)

InteractionKinds ==
  {"ChatInput", "UserContextMenu", "MessageContextMenu", "Button", "StringSelectMenu",
   "ModalSubmit", "Autocomplete", "UserSelectMenu"}

isChatInputCommand(i) == i.kind = "ChatInput"
isUserContextMenuCommand(i) == i.kind = "UserContextMenu"
isMessageContextMenuCommand(i) == i.kind = "MessageContextMenu"
isContextMenuCommand(i) == isUserContextMenuCommand(i) \/ isMessageContextMenuCommand(i)
isButton(i) == i.kind = "Button"
isStringSelectMenu(i) == i.kind = "StringSelectMenu"
isModalSubmit(i) == i.kind = "ModalSubmit"
isRepliable(i) == i.kind # "Autocomplete"

\* commandName of a command interaction, customId of a component interaction
Identifiers == {S_ping, S_profile_42, S_profile_4_2}

\* interaction.options.data of the chat-input commands that are sent
OptionData ==
  {<<>>,
   <<[name |-> "user", value |-> "7"]>>,
   <<[name |-> "user", value |-> "7"], [name |-> "count", value |-> "2"]>>,
   <<[name |-> "user", value |-> "7"], [name |-> "user", value |-> "9"]>>}

Undefined == [defined |-> FALSE, value |-> <<>>]
Defined(v) == [defined |-> TRUE, value |-> v]

NoInteraction == [kind |-> "None", id |-> <<>>, options |-> <<>>, dynamicParams |-> Undefined]

Errors == {"E1", "E2"}

----------------------------------------------------------------------------
(* MeoCordApp.handleInteraction *)

NotFoundText == "Command not found!"
ErrorText == "An error occurred while executing the command."

\* the callback of metaArray.some: the result, and the groups it stores on the interaction
MetaTest(meta, commandName, commandIdentifier) ==
  IF ~meta.regex.defined \/ commandIdentifier = <<>>
  THEN [hit |-> FALSE, dyn |-> Undefined]
  ELSE LET match == Exec(meta.regex, commandIdentifier)
       IN IF match.hasGroups
          THEN [hit |-> TRUE, dyn |-> Defined(match.groups)]
          ELSE [hit |-> commandIdentifier = commandName, dyn |-> Undefined]

\* metaArray.some(...): stops at the first entry of the array that tests true
RECURSIVE SomeMeta(_, _, _)
SomeMeta(metas, commandName, commandIdentifier) ==
  IF metas = <<>> THEN [hit |-> FALSE, dyn |-> Undefined]
  ELSE LET t == MetaTest(Head(metas), commandName, commandIdentifier)
       IN IF t.hit THEN t ELSE SomeMeta(Tail(metas), commandName, commandIdentifier)

\* Object.entries(commandMap).find(...): the first identifier, in insertion order,
\* one of whose entries tests true
RECURSIVE FindEntry(_, _)
FindEntry(commandMap, commandIdentifier) ==
  IF commandMap = <<>> THEN [defined |-> FALSE, metas |-> <<>>, dyn |-> Undefined]
  ELSE LET e == Head(commandMap)
           t == SomeMeta(e.metas, e.name, commandIdentifier)
       IN IF t.hit
          THEN [defined |-> TRUE, metas |-> e.metas, dyn |-> t.dyn]
          ELSE FindEntry(Tail(commandMap), commandIdentifier)

\* commandMetadataArray of one controller, and the dynamicParams left on the interaction
FindMetadataArray(commandMap, inter) ==
  IF isChatInputCommand(inter) \/ isContextMenuCommand(inter)
  THEN LET a == Lookup(commandMap, inter.id)
       IN [defined |-> a.defined, metas |-> a.metas, dyn |-> inter.dynamicParams]
  ELSE IF isButton(inter) \/ isStringSelectMenu(inter) \/ isModalSubmit(inter)
  THEN LET f == FindEntry(commandMap, inter.id)
       IN [defined |-> f.defined, metas |-> f.metas,
           dyn |-> IF f.dyn.defined THEN f.dyn ELSE inter.dynamicParams]
  ELSE [defined |-> FALSE, metas |-> <<>>, dyn |-> inter.dynamicParams]

\* const commandMetadata = commandMetadataArray[0]
SelectMetadata(metas, inter) == metas[1]

TypeMatches(type, inter) ==
  \/ type = "SLASH" /\ isChatInputCommand(inter)
  \/ type = "BUTTON" /\ isButton(inter)
  \/ type = "SELECT_MENU" /\ isStringSelectMenu(inter)
  \/ type = "CONTEXT_MENU" /\ isUserContextMenuCommand(inter)
  \/ type = "CONTEXT_MENU" /\ isMessageContextMenuCommand(inter)
  \/ type = "MODAL_SUBMIT" /\ isModalSubmit(inter)

\* options.data.reduce((acc, opt) => { acc[opt.name] = opt.value; return acc }, {})
RECURSIVE ReduceOptions(_, _)
ReduceOptions(acc, data) ==
  IF data = <<>> THEN acc
  ELSE ReduceOptions((Head(data).name :> Head(data).value) @@ acc, Tail(data))

\* the parameter object passed to the handler
BuildParams(inter) ==
  IF isChatInputCommand(inter) THEN ReduceOptions(<<>>, inter.options)
  ELSE IF isButton(inter) \/ isStringSelectMenu(inter)
  THEN IF inter.dynamicParams.defined THEN inter.dynamicParams.value ELSE <<>>
  ELSE <<>>

\* after the mismatch warning control leaves the try and reaches `return`:
\* 0 ends the dispatch, c > 0 would resume the scan at controller c
AfterMismatch(c) == 0

\* variant: after the awaited handler returned the scan goes on with the next controller
AfterHandler_NextController(c) == c + 1

\* after the awaited handler returned: `return`
AfterHandler(c) == 0

\* variant: the reply is sent without asking isRepliable()
NotFound_Unconditional(inter) == <<NotFoundText>>

\* the replies sent once the loop over the controllers is exhausted
NotFound(inter) == IF isRepliable(inter) THEN <<NotFoundText>> ELSE <<>>

\* variant: no catch block, the handler's error leaves handleInteraction
CatchHandlerError_Rethrow(inter, error) ==
  [logs |-> <<>>, replies |-> <<>>, status |-> "rejected"]

\* variant: the reply carries the error that was thrown
CatchHandlerError_Echo(inter, error) ==
  [logs |-> <<[level |-> "error", detail |-> error]>>,
   replies |-> IF isRepliable(inter) THEN <<error>> ELSE <<>>,
   status |-> "resolved"]

\* the catch block: what is logged, what is replied, how handleInteraction goes on
CatchHandlerError(inter, error) ==
  [logs |-> <<[level |-> "error", detail |-> error]>>,
   replies |-> IF isRepliable(inter) THEN <<ErrorText>> ELSE <<>>,
   status |-> "resolved"]

\* variant: the controllers are visited last to first
ControllerAt_Reversed(k) == controllers[Len(controllers) + 1 - k]

\* the order in which `for (const controller of this.controllers)` visits them
ControllerAt(k) == controllers[k]

\* the key handleInteraction looks the instance up under: the entry of this.controllers
InteractionCacheKey(c) == [by |-> "instance", of |-> c]

\* what one iteration of the loop produces
Produced(status, k, c, inter, calls, log, reply) ==
  [status |-> status, calls |-> calls, logs |-> log, replies |-> reply,
   visited |-> IF k <= Len(controllers) THEN {InteractionCacheKey(c)} ELSE {},
   dyn |-> inter.dynamicParams]

InfoLog == <<[level |-> "log", detail |-> "INTERACTION"]>>

MismatchLog ==
  <<[level |-> "debug", detail |-> "Interaction type mismatch"],
    [level |-> "warn", detail |-> "Interaction type mismatch"]>>

\* the body of `if (commandMetadataArray && commandMetadataArray.length > 0)` up to the await
Matched(k, c, inter, meta) ==
  IF TypeMatches(meta.type, inter)
  THEN Produced("awaitHandler", k, c, inter,
                <<[at |-> k, ctrl |-> c, methodName |-> meta.methodName, type |-> meta.type,
                   params |-> BuildParams(inter), outcome |-> "pending"]>>,
                InfoLog, <<>>)
  ELSE Produced("mismatch", k, c, inter, <<>>, MismatchLog, <<>>)

\* one iteration of the loop, given the commandMetadataArray found for the controller
Iteration(k, c, inter, commandMap, found) ==
  IF ~commandMap.defined
  THEN Produced("continue", k, c, inter, <<>>, <<>>, <<>>)
  ELSE IF ~found.defined \/ found.metas = <<>>
  THEN Produced("continue", k, c, [inter EXCEPT !.dynamicParams = found.dyn], <<>>, <<>>, <<>>)
  ELSE Matched(k, c, [inter EXCEPT !.dynamicParams = found.dyn],
               SelectMetadata(found.metas, inter))

\* `it` followed by what `rest`, the remainder of the dispatch, produces
Then(it, rest) ==
  [rest EXCEPT !.calls = it.calls \o @, !.logs = it.logs \o @, !.replies = it.replies \o @,
               !.visited = it.visited \cup @]

\* the loop of handleInteraction from its k-th iteration up to the first await or the end
RECURSIVE ScanControllers(_, _)

\* where the dispatch goes after iteration k produced `it`
Continue(k, inter, it) ==
  IF it.status = "continue"
  THEN Then(it, ScanControllers(k + 1, [inter EXCEPT !.dynamicParams = it.dyn]))
  ELSE IF it.status = "mismatch"
  THEN IF AfterMismatch(k) = 0
       THEN [it EXCEPT !.status = "resolved"]
       ELSE Then(it, ScanControllers(AfterMismatch(k), [inter EXCEPT !.dynamicParams = it.dyn]))
  ELSE it

ScanControllers(k, inter) ==
  IF k > Len(controllers)
  THEN Produced("resolved", k, "", inter, <<>>, <<>>, NotFound(inter))
  ELSE Continue(k, inter,
                Iteration(k, ControllerAt(k), inter, getCommandMap(ControllerAt(k)),
                          FindMetadataArray(getCommandMap(ControllerAt(k)).map, inter)))

----------------------------------------------------------------------------
(* @Guard and @UseGuard *)

EmptyObject == <<>>

\* guard classes; NotAGuard has no canActivate method
GuardClasses == {"RateLimiterGuard", "ButtonInteractionGuard", "OwnerGuard", "NotAGuard"}

\* variant: the wrapper does not look for the method
hasCanActivate_Always(cls) == TRUE

hasCanActivate(cls) == cls # "NotAGuard"

\* the two forms of a guard given to @UseGuard
Bare(cls) == [withParams |-> FALSE, provide |-> cls, params |-> EmptyObject]
WithParams(cls, params) == [withParams |-> TRUE, provide |-> cls, params |-> params]

isGuardWithParams(guard) == guard.withParams

\* the methods decorated with @UseGuard and the guards each was given, in declaration order
guards ==
  [showProfileById |-> <<WithParams("RateLimiterGuard", ("limit" :> 2) @@ ("window" :> 3000)),
                         Bare("ButtonInteractionGuard")>>,
   showStats       |-> <<WithParams("RateLimiterGuard", ("limit" :> 5) @@ ("window" :> 3000))>>,
   purge           |-> <<Bare("ButtonInteractionGuard"),
                         WithParams("RateLimiterGuard", ("limit" :> 5) @@ ("window" :> 3000)),
                         Bare("OwnerGuard")>>,
   broken          |-> <<Bare("ButtonInteractionGuard"), Bare("NotAGuard"), Bare("OwnerGuard")>>]

GuardedMethods == DOMAIN guards

\* argument lists a guarded method is called with: args[1] is, or is not, a BaseInteraction
ArgLists ==
  {<<[isBaseInteraction |-> TRUE, id |-> "button-1"], (S_id :> S_42)>>,
   <<[isBaseInteraction |-> FALSE, id |-> "message-1"]>>}

Calls == 1..MaxCalls

FreeCall ==
  [pc |-> "free", method |-> "", args |-> <<>>, idx |-> 0, inst |-> <<>>, error |-> "",
   trace |-> <<>>]

NoCalls == [k \in Calls |-> FreeCall]

\* one entry of a call's trace
Event(ev, idx, cls, args, res, seen) ==
  [ev |-> ev, idx |-> idx, cls |-> cls, args |-> args, res |-> res, seen |-> seen]

\* variant: the guard class is bound in singleton scope, one instance serves every call
resolve_Singleton(insts, k, idx, cls) ==
  [id |-> <<0, 0, cls>>,
   fields |-> IF <<0, 0, cls>> \in DOMAIN insts THEN insts[<<0, 0, cls>>] ELSE EmptyObject]

\* mainContainer.resolve(cls) for a class bound inTransientScope(): a new instance,
\* named after the call and the position in the chain that asked for it
resolve(insts, k, idx, cls) == [id |-> <<k, idx, cls>>, fields |-> EmptyObject]

\* Object.assign(guardInstance, params)
ObjectAssign(fields, params) == params @@ fields

\* variant: the guards are taken last to first
GuardAt_Reversed(m, idx) == guards[m][Len(guards[m]) + 1 - idx]

\* the idx-th guard the loop `for (const guard of guards)` visits
GuardAt(m, idx) == guards[m][idx]

\* variant: a falsy result of canActivate does not stop the loop
AfterCanActivate_IgnoreFalse(res) == IF res = "throw" THEN "throw" ELSE "next"

\* variant: an error of canActivate is taken for a rejection
AfterCanActivate_SwallowError(res) == IF res = "true" THEN "next" ELSE "return"

\* variant: a falsy result of canActivate is thrown as an error
AfterCanActivate_ThrowOnFalse(res) == IF res = "true" THEN "next" ELSE "throw"

\* what follows `await guardInstance.canActivate(...args)`: the error leaves the wrapper,
\* a falsy value returns from it, a truthy value goes on to the next guard
AfterCanActivate(res) ==
  IF res = "throw" THEN "throw" ELSE IF res = "false" THEN "return" ELSE "next"

\* the arguments the original method is applied to
HandlerArgs(args) == args

\* the guard instance's fields once the params, if any, are copied onto it
Resolved(insts, guard, r) ==
  (r.id :> (IF isGuardWithParams(guard) THEN ObjectAssign(r.fields, guard.params) ELSE r.fields))
    @@ insts

\* one iteration of the wrapper's loop up to `await guardInstance.canActivate(...args)`
GuardStep(call, k, idx, guard, r) ==
  IF ~hasCanActivate(guard.provide)
  THEN [call EXCEPT !.pc = "threw", !.error = "MalformedGuard", !.idx = idx, !.inst = r.id]
  ELSE [call EXCEPT !.pc = "awaitGuard", !.idx = idx, !.inst = r.id,
                    !.trace = Append(@, Event("canActivate", idx, guard.provide, call.args,
                                              "", EmptyObject))]

\* the wrapper from the idx-th iteration of its loop up to the next await: the call
\* record and the container's instances afterwards
Advance(call, insts, k, idx) ==
  IF idx > Len(guards[call.method])
  THEN [call |-> [call EXCEPT !.pc = "awaitHandler", !.idx = idx,
                              !.trace = Append(@, Event("handler", 0, "", HandlerArgs(call.args),
                                                        "", EmptyObject))],
        insts |-> insts]
  ELSE [call |-> GuardStep(call, k, idx, GuardAt(call.method, idx),
                           resolve(insts, k, idx, GuardAt(call.method, idx).provide)),
        insts |-> Resolved(insts, GuardAt(call.method, idx),
                           resolve(insts, k, idx, GuardAt(call.method, idx).provide))]

----------------------------------------------------------------------------
(* Message and reaction handlers *)

S_pong == <<"p", "o", "n", "g">>
S_ping_padded == <<" ", "p", "i", "n", "g", " ">>
S_blank == <<" ", " ">>

Whitespace == {" "}

RECURSIVE TrimStart(_)
TrimStart(s) == IF s # <<>> /\ Head(s) \in Whitespace THEN TrimStart(Tail(s)) ELSE s

RECURSIVE TrimEnd(_)
TrimEnd(s) ==
  IF s # <<>> /\ s[Len(s)] \in Whitespace THEN TrimEnd(SubSeq(s, 1, Len(s) - 1)) ELSE s

\* String.prototype.trim
Trim(s) == TrimEnd(TrimStart(s))

\* a value used as a condition: undefined and the empty string are falsy
Truthy(v) == v.defined /\ v.value # <<>>

\* the keyword given to @MessageHandler, the emoji given to @ReactionHandler
Keywords == {Undefined, Defined(S_ping), Defined(S_pong)}
Emojis == {Undefined, Defined(<<"+1">>), Defined(<<"heart">>)}

\* message.content and reaction.emoji.name of the events that arrive
Contents == {S_ping, S_ping_padded, S_pong, S_blank, <<>>}
EmojiNames == {<<"+1">>, <<"heart">>}

ReactionHandlerAction == {"ADD", "REMOVE"}

\* the user of a reaction event
User == "user-1"

\* handlers.push({ keyword, method }) of @MessageHandler
pushMessageHandler(handlers, keyword, propertyKey) ==
  Append(handlers, [keyword |-> keyword, method |-> propertyKey])

\* handlers.push({ emoji, method }) of @ReactionHandler
pushReactionHandler(handlers, emoji, propertyKey) ==
  Append(handlers, [emoji |-> emoji, method |-> propertyKey])

\* the key handleMessage and handleReaction look the instance up under: the class
ClassCacheKey(c) == [by |-> "class", of |-> c]

\* one entry of the trace of a message or reaction dispatch
Did(ev, ctrl, method, detail) == [ev |-> ev, ctrl |-> ctrl, method |-> method, detail |-> detail]

\* variant: the container is asked on every visit and its instance stored over the
\* cached one
GetInstance_Always(keys, key) == <<Did("get", key.of, 0, key.by)>>

\* controllerInstancesCache.get(key), and container.get on a miss
GetInstance(keys, key) == IF key \in keys THEN <<>> ELSE <<Did("get", key.of, 0, key.by)>>

NoEvent ==
  [type |-> "none", status |-> "idle", bot |-> FALSE, content |-> <<>>, emoji |-> <<>>,
   action |-> "", relevant |-> <<>>, ci |-> 0, hx |-> 0]

----------------------------------------------------------------------------
(* MeoCordApp.handleMessage *)

\* variant: only the handlers registered with the very keyword are taken
MessageHandlerMatches_KeywordOnly(handler, messageContent) ==
  handler.keyword = Defined(messageContent)

\* the test `!handler.keyword || handler.keyword === messageContent`
MessageHandlerMatches(handler, messageContent) ==
  ~Truthy(handler.keyword) \/ handler.keyword = Defined(messageContent)

\* this.controllers.filter(...): the controllers with some matching handler, in order
RelevantToMessage(handlers, messageContent) ==
  SelectSeq(controllers,
            LAMBDA c : \E i \in DOMAIN handlers[c] :
                          MessageHandlerMatches(handlers[c][i], messageContent))

HasKeyword(handler) == Truthy(handler.keyword)

HasNoKeyword(handler) == ~Truthy(handler.keyword)

\* variant: a sort that is not stable, the handlers of a kind come out in reverse
SortMessageHandlers_Reversing(handlers) ==
  SelectSeq([i \in DOMAIN handlers |-> handlers[Len(handlers) + 1 - i]], HasKeyword)
    \o SelectSeq([i \in DOMAIN handlers |-> handlers[Len(handlers) + 1 - i]], HasNoKeyword)

\* variant: the handlers are left in the order of their registration
SortMessageHandlers_Unsorted(handlers) == handlers

\* messageHandlers.sort(...): handlers with a keyword first, the order otherwise kept
SortMessageHandlers(handlers) ==
  SelectSeq(handlers, HasKeyword) \o SelectSeq(handlers, HasNoKeyword)

\* what the dispatch has come to: its position, the handler lists, the cache keys, the trace
At(status, ci, hx, handlers, keys, tr) ==
  [status |-> status, ci |-> ci, hx |-> hx, handlers |-> handlers, keys |-> keys, trace |-> tr]

\* variant: the handlers are called without being awaited
RECURSIVE MessageLoop_NoAwait(_, _, _, _, _, _, _)
MessageLoop_NoAwait(rel, ci, hx, message, handlers, keys, tr) ==
  IF ci > Len(rel)
  THEN At("done", ci, hx, handlers, keys, tr)
  ELSE IF hx = 0
  THEN MessageLoop_NoAwait(rel, ci, 1, message,
                           [handlers EXCEPT ![rel[ci]] = SortMessageHandlers(@)],
                           keys \cup {ClassCacheKey(rel[ci])},
                           tr \o GetInstance(keys, ClassCacheKey(rel[ci])))
  ELSE IF hx > Len(handlers[rel[ci]])
  THEN MessageLoop_NoAwait(rel, ci + 1, 0, message, handlers, keys, tr)
  ELSE IF MessageHandlerMatches(handlers[rel[ci]][hx], Trim(message))
  THEN MessageLoop_NoAwait(rel, ci, hx + 1, message, handlers, keys,
                           Append(tr, Did("invoke", rel[ci], handlers[rel[ci]][hx].method, message)))
  ELSE MessageLoop_NoAwait(rel, ci, hx + 1, message, handlers, keys, tr)

\* the loops of handleMessage from handler hx of relevant controller ci (hx = 0: the
\* controller is entered) up to the next awaited handler or the end
RECURSIVE MessageLoop(_, _, _, _, _, _, _)
MessageLoop(rel, ci, hx, message, handlers, keys, tr) ==
  IF ci > Len(rel)
  THEN At("done", ci, hx, handlers, keys, tr)
  ELSE IF hx = 0
  THEN MessageLoop(rel, ci, 1, message,
                   [handlers EXCEPT ![rel[ci]] = SortMessageHandlers(@)],
                   keys \cup {ClassCacheKey(rel[ci])},
                   tr \o GetInstance(keys, ClassCacheKey(rel[ci])))
  ELSE IF hx > Len(handlers[rel[ci]])
  THEN MessageLoop(rel, ci + 1, 0, message, handlers, keys, tr)
  ELSE IF MessageHandlerMatches(handlers[rel[ci]][hx], Trim(message))
  THEN At("inHandler", ci, hx, handlers, keys,
          Append(tr, Did("invoke", rel[ci], handlers[rel[ci]][hx].method, message)))
  ELSE MessageLoop(rel, ci, hx + 1, message, handlers, keys, tr)

\* variant: an error of a handler ends the dispatch
AfterMessageHandler_Abort(throws) == IF throws THEN "rejected" ELSE "next"

\* what follows `await controllerInstance[method](message)`: an error is caught and
\* logged, and the loop goes on with the next handler either way
AfterMessageHandler(throws) == "next"

\* variant: no early return
Ignored_Never(bot, content) == FALSE

\* the test `message.author.bot || !message.content?.trim()`
Ignored(bot, content) == bot \/ Trim(content) = <<>>

----------------------------------------------------------------------------
(* MeoCordApp.handleReaction *)

\* the test `!handler.emoji || handler.emoji === reaction.emoji.name`
ReactionHandlerMatches(handler, emojiName) ==
  ~Truthy(handler.emoji) \/ handler.emoji = Defined(emojiName)

\* this.controllers.filter(...): the controllers with some matching handler, in order
RelevantToReaction(handlers, emojiName) ==
  SelectSeq(controllers,
            LAMBDA c : \E i \in DOMAIN handlers[c] :
                          ReactionHandlerMatches(handlers[c][i], emojiName))

HasEmoji(handler) == Truthy(handler.emoji)

HasNoEmoji(handler) == ~Truthy(handler.emoji)

\* reactionHandlers.sort(...): handlers with an emoji first, the order otherwise kept
SortReactionHandlers(handlers) ==
  SelectSeq(handlers, HasEmoji) \o SelectSeq(handlers, HasNoEmoji)

\* variant: every reaction event is handed on as an added reaction
ReactionOptions_AlwaysAdd(action) == [user |-> User, action |-> "ADD"]

\* the second argument of a reaction handler: { user, action }
ReactionOptions(action) == [user |-> User, action |-> action]

\* the loops of handleReaction from handler hx of relevant controller ci (hx = 0: the
\* controller is entered) up to the next awaited handler or the end
RECURSIVE ReactionLoop(_, _, _, _, _, _, _)
ReactionLoop(rel, ci, hx, reaction, handlers, keys, tr) ==
  IF ci > Len(rel)
  THEN At("done", ci, hx, handlers, keys, tr)
  ELSE IF hx = 0
  THEN ReactionLoop(rel, ci, 1, reaction,
                    [handlers EXCEPT ![rel[ci]] = SortReactionHandlers(@)],
                    keys \cup {ClassCacheKey(rel[ci])},
                    tr \o GetInstance(keys, ClassCacheKey(rel[ci])))
  ELSE IF hx > Len(handlers[rel[ci]])
  THEN ReactionLoop(rel, ci + 1, 0, reaction, handlers, keys, tr)
  ELSE IF ReactionHandlerMatches(handlers[rel[ci]][hx], reaction.emoji)
  THEN At("inHandler", ci, hx, handlers, keys,
          Append(tr, Did("invoke", rel[ci], handlers[rel[ci]][hx].method,
                         [emoji |-> reaction.emoji, options |-> ReactionOptions(reaction.action)])))
  ELSE ReactionLoop(rel, ci, hx + 1, reaction, handlers, keys, tr)

\* what follows `await controllerInstance[method](reaction, { user, action })`: an error
\* is caught and logged, and the loop goes on with the next handler either way
AfterReactionHandler(throws) == "next"

\* variant: a failed fetch is caught and the handlers are dispatched all the same
AfterFetch_Caught(ok) == "dispatch"

\* what follows the settling of `await reaction.message.fetch()`, which stands in no
\* try block: the dispatch goes on, or the error leaves handleReaction
AfterFetch(ok) == IF ok THEN "dispatch" ELSE "rejected"

\* variant: the handlers are dispatched without waiting for the fetch
AfterFetchRequest_NoWait(r) == "dispatch"

\* `await reaction.message.fetch()`: the dispatch waits for the fetch to settle
AfterFetchRequest(r) == "await"

----------------------------------------------------------------------------
(* MeoCordApp.gracefulShutdown *)

\* the signals the constructor listens to
Signals == {"SIGINT", "SIGTERM"}

\* process.exit has been called
Exited == \E i \in DOMAIN effects : effects[i] = "exit"

Alive == ~Exited

\* variant: the flag is not consulted
ShouldShutDown_Always(flag) == TRUE

\* the test `this.bot && !this.isShuttingDown`; this.bot is set by the constructor
ShouldShutDown(flag) == ~flag

\* gracefulShutdown from its start up to `await this.bot.destroy()`
ShutdownBegins == <<"removeAllListeners", "destroy">>

\* variant: an error of destroy leaves gracefulShutdown
AfterDestroy_Rethrow(ok) == IF ok THEN "wait" ELSE "rejected"

\* where gracefulShutdown goes once destroy has settled: to `await wait(100)`, in the
\* try block after the log line or in the catch block after the error line
AfterDestroy(ok) == "wait"

\* what the settling of destroy adds to the effects
DestroyOutcome(ok) ==
  IF ok THEN <<"log:Bot has shut down">> ELSE <<"error:Error during shutdown">>

----------------------------------------------------------------------------
(* MeoCordApp.registerCommands *)

\* builder classes decorated with @CommandBuilder, each with its 'commandType' metadata
BuilderClasses ==
  {[name |-> "PingCommandBuilder", commandType |-> "SLASH"],
   [name |-> "ReportCommandBuilder", commandType |-> "CONTEXT_MENU"]}

\* new builderOrType().build(commandName): the platform command the class builds
build(builderClass, commandName) == [name |-> commandName, builtBy |-> builderClass.name]

\* variant: every entry is taken to carry a builder
CarriesBuilder_Always(meta) == TRUE

\* the test `type in CommandType && builder`
CarriesBuilder(meta) == meta.type \in CommandType /\ meta.builder.defined

\* the builders the loop over one commandMetadataArray pushes
BuildersOfArray(metas) ==
  [i \in 1..Len(SelectSeq(metas, CarriesBuilder)) |->
     SelectSeq(metas, CarriesBuilder)[i].builder.value]

\* the builders the loop `for (const commandName in commandMap)` pushes
RECURSIVE BuildersOfMap(_)
BuildersOfMap(commandMap) ==
  IF commandMap = <<>> THEN <<>>
  ELSE BuildersOfArray(Head(commandMap).metas) \o BuildersOfMap(Tail(commandMap))

\* the builders the loop over this.controllers pushes from its k-th controller on
RECURSIVE BuildersFrom(_)
BuildersFrom(k) ==
  IF k > Len(controllers) THEN <<>>
  ELSE BuildersOfMap(getCommandMap(controllers[k]).map) \o BuildersFrom(k + 1)

\* variant: one call of commands.set for every builder
SetCalls_OnePerBuilder(present, builders) ==
  [i \in 1..Len(builders) |-> [builders |-> <<builders[i]>>, status |-> "pending"]]

\* the calls of application.commands.set one run of registerCommands makes: one call
\* with all the builders when bot.application is set, none otherwise
SetCalls(present, builders) ==
  IF present THEN <<[builders |-> builders, status |-> "pending"]>> ELSE <<>>

\* variant: the error of commands.set leaves registerCommands
AfterSet_Rethrow(ok) == IF ok THEN "registered" ELSE "rejected"

\* how the awaited commands.set ends the try block of registerCommands: with the log
\* line 'Registered n bot commands', or in the catch block with logger.error
AfterSet(ok) == IF ok THEN "registered" ELSE "errorLogged"

\* what an error that leaves an async listener does to the process: the rejection is
\* unhandled and the process ends
UnhandledRejection(status) == IF status = "rejected" THEN <<"exit">> ELSE <<>>

\* no pattern has been compiled
NoRun ==
  [stage |-> "none", pattern |-> <<>>, compiled |-> [regex |-> NoRegex, params |-> <<>>, error |-> "none"],
   fill |-> <<>>, lead |-> <<>>, trail |-> <<>>, subject |-> <<>>, match |-> NoMatch]

\* no program has been loaded
NoProgram == [name |-> "none", paramtypes |-> <<>>, kinds |-> <<>>, services |-> <<>>]

\* no decorator is binding classes
NoBinding == [by |-> "none", target |-> "none", stack |-> <<>>, bound |-> <<>>, status |-> "idle"]

\* nothing has been done to the root class
NoBoot ==
  [stage |-> "none", program |-> NoProgram, config |-> FALSE, decorated |-> {}, meta |-> {},
   created |-> "none", target |-> "none"]

----------------------------------------------------------------------------
(* Actions of the dispatcher *)

Init ==
  /\ phase = "load"
  /\ commandMaps = [c \in Controllers |-> <<>>]
  /\ regCount = 0
  /\ cache = {}
  /\ hi = "idle"
  /\ interaction = NoInteraction
  /\ invoked = <<>>
  /\ replies = <<>>
  /\ logs = <<>>
  /\ gcalls = NoCalls
  /\ instances = <<>>
  /\ messageHandlers = [c \in Controllers |-> <<>>]
  /\ reactionHandlers = [c \in Controllers |-> <<>>]
  /\ handlerCount = 0
  /\ event = NoEvent
  /\ trace = <<>>
  /\ isShuttingDown = FALSE
  /\ listening = FALSE
  /\ shutdowns = <<>>
  /\ effects = <<>>
  /\ application = FALSE
  /\ setCalls = <<>>
  /\ readyEvents = 0
  /\ events = <<>>
  /\ regexRun = NoRun
  /\ container = {}
  /\ binding = NoBinding
  /\ boot = NoBoot

\* the number of methods of a controller that carry a @Command so far
RECURSIVE CountMetas(_)
CountMetas(commandMap) ==
  IF commandMap = <<>> THEN 0 ELSE Len(Head(commandMap).metas) + CountMetas(Tail(commandMap))

\* a @Command decorator runs on the next method of controller c while the module loads
Command(c, commandName, commandType) ==
  /\ phase = "load"
  /\ regCount < MaxCommands
  /\ regCount' = regCount + 1
  /\ commandMaps' = [commandMaps EXCEPT
                       ![c] = registerCommand(@, commandName,
                                CommandMetadata(commandName, commandType, CountMetas(@) + 1, Undefined))]
  /\ UNCHANGED <<phase, cache, hi, interaction, invoked, replies, logs>>
  /\ UNCHANGED <<gvars, mvars, svars, rvars, nvars>>

\* start() attaches the listeners: events are served from now on
start ==
  /\ phase = "load"
  /\ phase' = "run"
  /\ listening' = TRUE
  /\ UNCHANGED <<commandMaps, regCount, cache, hi, interaction, invoked, replies, logs>>
  /\ UNCHANGED <<isShuttingDown, shutdowns, effects>>
  /\ UNCHANGED <<gvars, mvars, rvars, nvars>>

\* the part of handleInteraction that runs from iteration k of the loop to the next
\* await or to the end, added to what the event has produced so far
RunFrom(k, inter) ==
  \E r \in {ScanControllers(k, inter)} :
     /\ interaction' = [inter EXCEPT !.dynamicParams = r.dyn]
     /\ cache' = cache \cup r.visited
     /\ invoked' = invoked \o r.calls
     /\ logs' = logs \o r.logs
     /\ replies' = replies \o r.replies
     /\ hi' = r.status

\* 'interactionCreate': handleInteraction up to the handler invocation or to its end
handleInteraction(kind, id, options) ==
  /\ phase = "run"
  /\ Alive
  /\ listening
  /\ hi = "idle"
  /\ RunFrom(1, [kind |-> kind, id |-> id, options |-> options, dynamicParams |-> Undefined])
  /\ UNCHANGED <<phase, commandMaps, regCount>>
  /\ UNCHANGED <<gvars, mvars, svars, rvars, nvars>>

\* the awaited handler returns
HandlerReturns ==
  /\ Alive
  /\ hi = "awaitHandler"
  /\ \E n \in {Len(invoked)} : \E done \in {[invoked EXCEPT ![n].outcome = "returned"]} :
        IF AfterHandler(invoked[n].at) = 0
        THEN /\ hi' = "resolved"
             /\ invoked' = done
             /\ UNCHANGED <<cache, interaction, replies, logs>>
        ELSE \E r \in {ScanControllers(AfterHandler(invoked[n].at), interaction)} :
               /\ interaction' = [interaction EXCEPT !.dynamicParams = r.dyn]
               /\ cache' = cache \cup r.visited
               /\ invoked' = done \o r.calls
               /\ logs' = logs \o r.logs
               /\ replies' = replies \o r.replies
               /\ hi' = r.status
  /\ UNCHANGED <<phase, commandMaps, regCount>>
  /\ UNCHANGED <<gvars, mvars, svars, rvars, nvars>>

\* the awaited handler throws (or its promise rejects) with error e
HandlerThrows(e) ==
  /\ Alive
  /\ hi = "awaitHandler"
  /\ \E r \in {CatchHandlerError(interaction, e)} :
        /\ logs' = logs \o r.logs
        /\ replies' = replies \o r.replies
        /\ hi' = r.status
  /\ invoked' = [invoked EXCEPT ![Len(invoked)].outcome = e]
  /\ UNCHANGED <<phase, commandMaps, regCount, cache, interaction>>
  /\ UNCHANGED <<gvars, mvars, svars, rvars, nvars>>

\* the listener `async interaction => { await this.handleInteraction(interaction) }`
\* is over: the event and what it produced are forgotten
interactionCreateDone ==
  /\ Alive
  /\ hi \in {"resolved", "rejected"}
  /\ hi' = "idle"
  /\ interaction' = NoInteraction
  /\ invoked' = <<>>
  /\ replies' = <<>>
  /\ logs' = <<>>
  /\ UNCHANGED <<phase, commandMaps, regCount, cache>>
  /\ UNCHANGED <<gvars, mvars, svars, rvars, nvars>>

Next ==
  \/ \E c \in Controllers, n \in CommandNames, t \in CommandType : Command(c, n, t)
  \/ start
  \/ \E kind \in InteractionKinds, id \in Identifiers :
       \E options \in (IF kind = "ChatInput" THEN OptionData ELSE {<<>>}) :
         handleInteraction(kind, id, options)
  \/ HandlerReturns
  \/ \E e \in Errors : HandlerThrows(e)
  \/ interactionCreateDone

Spec == Init /\ [][Next]_vars

----------------------------------------------------------------------------
(* Actions of the guarded methods *)

\* a guarded method is called: the wrapper runs to its first await, or throws at once
UseGuard(k, m, args) ==
  /\ gcalls[k].pc = "free"
  /\ \A j \in Calls : j < k => gcalls[j].pc # "free"
  /\ IF ~args[1].isBaseInteraction
     THEN /\ gcalls' = [gcalls EXCEPT ![k] = [FreeCall EXCEPT !.pc = "threw", !.method = m,
                                                              !.args = args,
                                                              !.error = "NotAnInteraction"]]
          /\ UNCHANGED instances
     ELSE \E a \in {Advance([FreeCall EXCEPT !.method = m, !.args = args], instances, k, 1)} :
             /\ gcalls' = [gcalls EXCEPT ![k] = a.call]
             /\ instances' = a.insts
  /\ UNCHANGED <<dvars, mvars, svars, rvars, nvars>>

\* the awaited canActivate of call k settles with res; it reads the fields of its instance
canActivate(k, res) ==
  /\ gcalls[k].pc = "awaitGuard"
  /\ \E call \in {[gcalls[k] EXCEPT
                     !.trace = Append(@, Event("settled", gcalls[k].idx,
                                               GuardAt(gcalls[k].method, gcalls[k].idx).provide,
                                               <<>>, res, instances[gcalls[k].inst]))]} :
       IF AfterCanActivate(res) = "throw"
       THEN /\ gcalls' = [gcalls EXCEPT ![k] = [call EXCEPT !.pc = "threw", !.error = "GuardError"]]
            /\ UNCHANGED instances
       ELSE IF AfterCanActivate(res) = "return"
       THEN /\ gcalls' = [gcalls EXCEPT ![k] = [call EXCEPT !.pc = "returned"]]
            /\ UNCHANGED instances
       ELSE \E a \in {Advance(call, instances, k, call.idx + 1)} :
               /\ gcalls' = [gcalls EXCEPT ![k] = a.call]
               /\ instances' = a.insts
  /\ UNCHANGED <<dvars, mvars, svars, rvars, nvars>>

\* the original method, applied by the wrapper, returns or throws
originalMethod(k, throws) ==
  /\ gcalls[k].pc = "awaitHandler"
  /\ gcalls' = [gcalls EXCEPT ![k].pc = IF throws THEN "threw" ELSE "returned",
                              ![k].error = IF throws THEN "HandlerError" ELSE ""]
  /\ UNCHANGED instances
  /\ UNCHANGED <<dvars, mvars, svars, rvars, nvars>>

GuardNext ==
  \/ \E k \in Calls, m \in GuardedMethods, args \in ArgLists : UseGuard(k, m, args)
  \/ \E k \in Calls, res \in {"true", "false", "throw"} : canActivate(k, res)
  \/ \E k \in Calls, throws \in BOOLEAN : originalMethod(k, throws)

GuardSpec == Init /\ [][GuardNext]_vars

----------------------------------------------------------------------------
(* Actions of the dispatch of guarded handlers *)

\* the guarded call made last
CurrentCall == CHOOSE k \in Calls :
                 /\ gcalls[k].pc # "free"
                 /\ \A j \in Calls : gcalls[j].pc # "free" => j <= k

\* 'interactionCreate' when the handler methods carry @UseGuard with the guards of m:
\* handleInteraction up to the invocation of the handler, which is the wrapper and
\* runs to its first await
dispatchGuarded(kind, id, m) ==
  /\ phase = "run"
  /\ Alive
  /\ listening
  /\ hi = "idle"
  /\ \E k \in Calls, r \in {ScanControllers(1, [kind |-> kind, id |-> id, options |-> <<>>,
                                                 dynamicParams |-> Undefined])} :
       /\ gcalls[k].pc = "free"
       /\ \A j \in Calls : j < k => gcalls[j].pc # "free"
       /\ RunFrom(1, [kind |-> kind, id |-> id, options |-> <<>>, dynamicParams |-> Undefined])
       /\ IF r.status = "awaitHandler"
          THEN \E a \in {Advance([FreeCall EXCEPT
                                    !.method = m,
                                    !.args = <<[isBaseInteraction |-> TRUE, id |-> id],
                                               r.calls[1].params>>],
                                 instances, k, 1)} :
                  /\ gcalls' = [gcalls EXCEPT ![k] = a.call]
                  /\ instances' = a.insts
          ELSE UNCHANGED <<gcalls, instances>>
  /\ UNCHANGED <<phase, commandMaps, regCount>>
  /\ UNCHANGED <<mvars, svars, rvars, nvars>>

\* the wrapper returned, after the handler or after a guard gave a falsy value: the
\* awaited call of handleInteraction returns
wrapperReturns ==
  /\ hi = "awaitHandler"
  /\ gcalls[CurrentCall].pc = "returned"
  /\ HandlerReturns

\* the wrapper threw: the awaited call of handleInteraction throws its error
wrapperThrows ==
  /\ hi = "awaitHandler"
  /\ gcalls[CurrentCall].pc = "threw"
  /\ HandlerThrows(gcalls[CurrentCall].error)

GuardedDispatchNext ==
  \/ \E c \in Controllers, t \in {"SLASH", "BUTTON"} : Command(c, S_ping, t)
  \/ start
  \/ \E kind \in {"ChatInput", "Button"}, m \in GuardedMethods : dispatchGuarded(kind, S_ping, m)
  \/ \E k \in Calls, res \in {"true", "false", "throw"} : canActivate(k, res)
  \/ \E k \in Calls, throws \in BOOLEAN : originalMethod(k, throws)
  \/ wrapperReturns
  \/ wrapperThrows
  \/ interactionCreateDone

GuardedDispatchSpec == Init /\ [][GuardedDispatchNext]_vars

----------------------------------------------------------------------------
(* Actions of message and reaction dispatch *)

\* the dispatcher's state that message and reaction dispatch leave alone
ivars == <<phase, commandMaps, regCount, hi, interaction, invoked, replies, logs>>

\* a @MessageHandler decorator runs on the next method of controller c
MessageHandler(c, keyword) ==
  /\ phase = "load"
  /\ handlerCount < MaxHandlers
  /\ handlerCount' = handlerCount + 1
  /\ messageHandlers' = [messageHandlers EXCEPT ![c] = pushMessageHandler(@, keyword, Len(@) + 1)]
  /\ UNCHANGED <<reactionHandlers, event, trace, cache>>
  /\ UNCHANGED <<ivars, gvars, svars, rvars, nvars>>

\* a @ReactionHandler decorator runs on the next method of controller c
ReactionHandler(c, emoji) ==
  /\ phase = "load"
  /\ handlerCount < MaxHandlers
  /\ handlerCount' = handlerCount + 1
  /\ reactionHandlers' = [reactionHandlers EXCEPT ![c] = pushReactionHandler(@, emoji, Len(@) + 1)]
  /\ UNCHANGED <<messageHandlers, event, trace, cache>>
  /\ UNCHANGED <<ivars, gvars, svars, rvars, nvars>>

\* the dispatch of a message goes on to r
MessageRuns(ev, r) ==
  /\ event' = [ev EXCEPT !.status = r.status, !.ci = r.ci, !.hx = r.hx]
  /\ messageHandlers' = r.handlers
  /\ cache' = r.keys
  /\ trace' = r.trace
  /\ UNCHANGED reactionHandlers

\* 'messageCreate': handleMessage up to its first handler invocation or to its end
messageCreate(bot, content) ==
  /\ phase = "run"
  /\ Alive
  /\ listening
  /\ event.status = "idle"
  /\ IF Ignored(bot, content)
     THEN /\ event' = [NoEvent EXCEPT !.type = "message", !.status = "done", !.bot = bot,
                                      !.content = content]
          /\ UNCHANGED <<messageHandlers, reactionHandlers, cache, trace>>
     ELSE \E rel \in {RelevantToMessage(messageHandlers, Trim(content))} :
            \E r \in {MessageLoop(rel, 1, 0, content, messageHandlers, cache, <<>>)} :
               MessageRuns([NoEvent EXCEPT !.type = "message", !.bot = bot, !.content = content,
                                           !.relevant = rel], r)
  /\ UNCHANGED <<handlerCount, ivars, gvars, svars, rvars, nvars>>

\* what the settling of the awaited handler adds to the trace
Settled(throws, caught) ==
  IF ~throws THEN <<Did("return", "", 0, "")>>
  ELSE IF caught THEN <<Did("throw", "", 0, ""), Did("error", "", 0, "logger.error")>>
  ELSE <<Did("throw", "", 0, "")>>

\* the awaited message handler returns or throws
messageHandlerSettles(throws) ==
  /\ Alive
  /\ event.type = "message"
  /\ event.status = "inHandler"
  /\ IF AfterMessageHandler(throws) = "next"
     THEN \E r \in {MessageLoop(event.relevant, event.ci, event.hx + 1, event.content,
                                messageHandlers, cache, trace \o Settled(throws, TRUE))} :
             MessageRuns(event, r)
     ELSE /\ event' = [event EXCEPT !.status = "rejected"]
          /\ trace' = trace \o Settled(throws, FALSE)
          /\ UNCHANGED <<messageHandlers, reactionHandlers, cache>>
  /\ UNCHANGED <<handlerCount, ivars, gvars, svars, rvars, nvars>>

\* the dispatch of a reaction goes on to r
ReactionRuns(ev, r) ==
  /\ event' = [ev EXCEPT !.status = r.status, !.ci = r.ci, !.hx = r.hx]
  /\ reactionHandlers' = r.handlers
  /\ cache' = r.keys
  /\ trace' = r.trace
  /\ UNCHANGED messageHandlers

\* handleReaction after the fetch
ReactionDispatch(ev, tr) ==
  \E rel \in {RelevantToReaction(reactionHandlers, ev.emoji)} :
    \E r \in {ReactionLoop(rel, 1, 0, ev, reactionHandlers, cache, tr)} :
       ReactionRuns([ev EXCEPT !.relevant = rel], r)

\* 'messageReactionAdd' / 'messageReactionRemove': handleReaction up to the fetch
messageReaction(action, emojiName) ==
  /\ phase = "run"
  /\ Alive
  /\ listening
  /\ event.status = "idle"
  /\ \E ev \in {[NoEvent EXCEPT !.type = "reaction", !.status = "fetching",
                                !.emoji = emojiName, !.action = action]} :
       IF AfterFetchRequest(ev) = "await"
       THEN /\ event' = ev
            /\ trace' = <<Did("fetch", "", 0, "")>>
            /\ UNCHANGED <<messageHandlers, reactionHandlers, cache>>
       ELSE ReactionDispatch(ev, <<Did("fetch", "", 0, "")>>)
  /\ UNCHANGED <<handlerCount, ivars, gvars, svars, rvars, nvars>>

\* the fetch of the target message completes or fails
fetchSettles(ok) ==
  /\ Alive
  /\ event.type = "reaction"
  /\ event.status = "fetching"
  /\ IF AfterFetch(ok) = "dispatch"
     THEN ReactionDispatch(event, Append(trace, Did(IF ok THEN "fetched" ELSE "fetchFailed",
                                                    "", 0, "")))
     ELSE /\ event' = [event EXCEPT !.status = "rejected"]
          /\ trace' = Append(trace, Did("fetchFailed", "", 0, ""))
          /\ UNCHANGED <<messageHandlers, reactionHandlers, cache>>
  /\ UNCHANGED <<handlerCount, ivars, gvars, svars, rvars, nvars>>

\* the awaited reaction handler returns or throws
reactionHandlerSettles(throws) ==
  /\ Alive
  /\ event.type = "reaction"
  /\ event.status = "inHandler"
  /\ IF AfterReactionHandler(throws) = "next"
     THEN \E r \in {ReactionLoop(event.relevant, event.ci, event.hx + 1, event,
                                 reactionHandlers, cache, trace \o Settled(throws, TRUE))} :
             ReactionRuns(event, r)
     ELSE /\ event' = [event EXCEPT !.status = "rejected"]
          /\ trace' = trace \o Settled(throws, FALSE)
          /\ UNCHANGED <<messageHandlers, reactionHandlers, cache>>
  /\ UNCHANGED <<handlerCount, ivars, gvars, svars, rvars, nvars>>

\* the listener of the event has completed; the next event is taken up
eventDone ==
  /\ Alive
  /\ event.status \in {"done", "rejected"}
  /\ event' = NoEvent
  /\ trace' = <<>>
  /\ UNCHANGED <<messageHandlers, reactionHandlers, handlerCount, cache>>
  /\ UNCHANGED <<ivars, gvars, svars, rvars, nvars>>

MessageNext ==
  \/ \E c \in Controllers, keyword \in Keywords : MessageHandler(c, keyword)
  \/ start
  \/ \E bot \in BOOLEAN, content \in Contents : messageCreate(bot, content)
  \/ \E throws \in BOOLEAN : messageHandlerSettles(throws)
  \/ eventDone

MessageSpec == Init /\ [][MessageNext]_vars

ReactionNext ==
  \/ \E c \in Controllers, emoji \in Emojis : ReactionHandler(c, emoji)
  \/ start
  \/ \E action \in ReactionHandlerAction, emojiName \in EmojiNames : messageReaction(action, emojiName)
  \/ \E ok \in BOOLEAN : fetchSettles(ok)
  \/ \E throws \in BOOLEAN : reactionHandlerSettles(throws)
  \/ eventDone

ReactionSpec == Init /\ [][ReactionNext]_vars

----------------------------------------------------------------------------
(* Interaction, message and reaction events on the same controllers *)

\* the three dispatch paths of one application, events of different kinds interleaving
\* at the awaits; one handler of each kind is registered per decorator application
CacheNext ==
  \/ \E c \in Controllers : Command(c, S_ping, "SLASH")
  \/ \E c \in Controllers : MessageHandler(c, Undefined)
  \/ \E c \in Controllers : ReactionHandler(c, Undefined)
  \/ start
  \/ handleInteraction("ChatInput", S_ping, <<>>)
  \/ HandlerReturns
  \/ interactionCreateDone
  \/ messageCreate(FALSE, S_ping)
  \/ messageHandlerSettles(FALSE)
  \/ messageReaction("ADD", <<"+1">>)
  \/ fetchSettles(TRUE)
  \/ reactionHandlerSettles(FALSE)
  \/ eventDone

CacheSpec == Init /\ [][CacheNext]_vars

----------------------------------------------------------------------------
(* Actions of command registration *)

\* a @Command decorator that is given a builder class runs on the next method of c
CommandWithBuilder(c, commandName, builderClass) ==
  /\ phase = "load"
  /\ regCount < MaxCommands
  /\ builderClass.commandType \in CommandType
  /\ regCount' = regCount + 1
  /\ commandMaps' = [commandMaps EXCEPT
                       ![c] = registerCommand(@, commandName,
                                CommandMetadata(commandName, builderClass.commandType,
                                                CountMetas(@) + 1,
                                                Defined(build(builderClass, commandName))))]
  /\ UNCHANGED <<phase, cache, hi, interaction, invoked, replies, logs>>
  /\ UNCHANGED <<gvars, mvars, svars, rvars, nvars>>

\* the client emits 'ready' and the listener attached with bot.on('ready', ...) runs:
\* the client has its application, and registerCommands runs up to the await of
\* application.commands.set
ready ==
  /\ phase = "run"
  /\ listening
  /\ Alive
  /\ readyEvents < MaxReady
  /\ readyEvents' = readyEvents + 1
  /\ application' = TRUE
  /\ setCalls' = setCalls \o SetCalls(TRUE, BuildersFrom(1))
  /\ UNCHANGED <<dvars, gvars, mvars, svars, nvars>>

\* the awaited commands.set of call k completes, or fails and is logged
commandsSetSettles(k, ok) ==
  /\ Alive
  /\ k \in DOMAIN setCalls
  /\ setCalls[k].status = "pending"
  /\ setCalls' = [setCalls EXCEPT ![k].status = AfterSet(ok)]
  /\ effects' = effects \o UnhandledRejection(AfterSet(ok))
  /\ UNCHANGED <<application, readyEvents>>
  /\ UNCHANGED <<isShuttingDown, listening, shutdowns>>
  /\ UNCHANGED <<dvars, gvars, mvars, nvars>>

RegisterNext ==
  \/ \E c \in Controllers, commandName \in CommandNames, commandType \in CommandType :
        Command(c, commandName, commandType)
  \/ \E c \in Controllers, commandName \in CommandNames, builderClass \in BuilderClasses :
        CommandWithBuilder(c, commandName, builderClass)
  \/ start
  \/ ready
  \/ \E k \in DOMAIN setCalls, ok \in BOOLEAN : commandsSetSettles(k, ok)

RegisterSpec == Init /\ [][RegisterNext]_vars

\* the whole life of one application: registration, 'ready' with registerCommands, and
\* interaction, message and reaction events, in any order after start()
LifecycleNext ==
  \/ CommandWithBuilder(controllers[1], S_ping,
                        [name |-> "PingCommandBuilder", commandType |-> "SLASH"])
  \/ MessageHandler(controllers[1], Undefined)
  \/ ReactionHandler(controllers[2], Undefined)
  \/ start
  \/ ready
  \/ \E ok \in BOOLEAN : commandsSetSettles(Len(setCalls), ok)
  \/ handleInteraction("ChatInput", S_ping, <<>>)
  \/ HandlerReturns
  \/ interactionCreateDone
  \/ messageCreate(FALSE, S_ping)
  \/ messageHandlerSettles(FALSE)
  \/ messageReaction("ADD", <<"+1">>)
  \/ fetchSettles(TRUE)
  \/ reactionHandlerSettles(FALSE)
  \/ eventDone

LifecycleSpec == Init /\ [][LifecycleNext]_vars

----------------------------------------------------------------------------
(* Overlapping events *)

\* variant: an event is taken up only when no handler of an earlier event is awaited
Accepts_OneAtATime(inFlight) ==
  \A k \in DOMAIN inFlight : inFlight[k].event.status # "inHandler"

\* the emitter calls the listener `async message => { await this.handleMessage(message) }`
\* for every event it emits, whatever the calls made for earlier events have come to
Accepts(inFlight) == TRUE

\* the dispatch of the k-th message goes on to r
OverlappingRuns(k, ev, r) ==
  /\ events' = [i \in 1..k |->
                  IF i = k
                  THEN [event |-> [ev EXCEPT !.status = r.status, !.ci = r.ci, !.hx = r.hx],
                        trace |-> r.trace]
                  ELSE events[i]]
  /\ messageHandlers' = r.handlers
  /\ cache' = r.keys

\* 'messageCreate' while earlier messages may still be dispatched: handleMessage up to its
\* first handler invocation or to its end
messageArrives(bot, content) ==
  /\ phase = "run"
  /\ Alive
  /\ listening
  /\ Len(events) < MaxEvents
  /\ Accepts(events)
  /\ IF Ignored(bot, content)
     THEN /\ events' = Append(events,
                         [event |-> [NoEvent EXCEPT !.type = "message", !.status = "done",
                                                    !.bot = bot, !.content = content],
                          trace |-> <<>>])
          /\ UNCHANGED <<messageHandlers, cache>>
     ELSE \E rel \in {RelevantToMessage(messageHandlers, Trim(content))} :
            \E r \in {MessageLoop(rel, 1, 0, content, messageHandlers, cache, <<>>)} :
               OverlappingRuns(Len(events) + 1,
                               [NoEvent EXCEPT !.type = "message", !.bot = bot,
                                               !.content = content, !.relevant = rel], r)
  /\ UNCHANGED <<reactionHandlers, handlerCount, event, trace>>
  /\ UNCHANGED <<ivars, gvars, svars, rvars, pvars, bvars>>

\* the handler awaited by the dispatch of the k-th message returns or throws
handlerOfSettles(k, throws) ==
  /\ Alive
  /\ k \in DOMAIN events
  /\ events[k].event.status = "inHandler"
  /\ IF AfterMessageHandler(throws) = "next"
     THEN \E r \in {MessageLoop(events[k].event.relevant, events[k].event.ci,
                                events[k].event.hx + 1, events[k].event.content,
                                messageHandlers, cache,
                                events[k].trace \o Settled(throws, TRUE))} :
             /\ events' = [events EXCEPT
                             ![k] = [event |-> [@.event EXCEPT !.status = r.status,
                                                               !.ci = r.ci, !.hx = r.hx],
                                     trace |-> r.trace]]
             /\ messageHandlers' = r.handlers
             /\ cache' = r.keys
     ELSE /\ events' = [events EXCEPT ![k].event.status = "rejected",
                                      ![k].trace = @ \o Settled(throws, FALSE)]
          /\ UNCHANGED <<messageHandlers, cache>>
  /\ UNCHANGED <<reactionHandlers, handlerCount, event, trace>>
  /\ UNCHANGED <<ivars, gvars, svars, rvars, pvars, bvars>>

\* messages and an interaction received while handlers of earlier events are awaited
OverlapNext ==
  \/ Command(controllers[1], S_ping, "SLASH")
  \/ \E keyword \in {Undefined, Defined(S_ping)} : MessageHandler(controllers[1], keyword)
  \/ start
  \/ messageArrives(FALSE, S_ping)
  \/ \E k \in DOMAIN events : handlerOfSettles(k, FALSE)
  \/ handleInteraction("ChatInput", S_ping, <<>>)
  \/ HandlerReturns

OverlapSpec == Init /\ [][OverlapNext]_vars

----------------------------------------------------------------------------
(* Pattern compilation and matching on their own *)

\* the patterns compiled
Patterns ==
  {S_ping, S_profile_id, S_bare_id, S_id_dash_x, S_id_x, S_p_dot_id,
   S_x_bad_name, S_x_empty, S_digit_name, S_id_dash_id}

\* the values put in the place of a placeholder
Fillers == {S_x, S_4x, <<>>, S_4_2, <<"4", "_">>}

\* the characters put before and after
Extras == {<<>>, S_x, <<" ">>, <<"-">>}

\* the pattern with the value fill[name] in the place of every placeholder {name}
RECURSIVE Substitute(_, _)
Substitute(pattern, fill) ==
  IF pattern = <<>> THEN <<>>
  ELSE IF PlaceholderLen(pattern) > 0
  THEN fill[SubSeq(pattern, 2, PlaceholderLen(pattern) - 1)]
         \o Substitute(Drop(pattern, PlaceholderLen(pattern)), fill)
  ELSE <<Head(pattern)>> \o Substitute(Tail(pattern), fill)

\* a @Command decorator of a component type compiles its pattern
compile(pattern) ==
  /\ regexRun.stage = "none"
  /\ regexRun' = [NoRun EXCEPT !.stage = "compiled", !.pattern = pattern,
                               !.compiled = createRegexFromPattern(pattern)]
  /\ UNCHANGED <<dvars, gvars, mvars, svars, rvars, cvars, bvars>>

\* the compiled expression is run on the pattern with its placeholders filled in and
\* with characters added in front and behind
exec(fill, lead, trail) ==
  /\ regexRun.stage = "compiled"
  /\ regexRun.compiled.error = "none"
  /\ regexRun' = [regexRun EXCEPT
                    !.stage = "matched", !.fill = fill, !.lead = lead, !.trail = trail,
                    !.subject = lead \o Substitute(regexRun.pattern, fill) \o trail,
                    !.match = Exec(regexRun.compiled.regex,
                                   lead \o Substitute(regexRun.pattern, fill) \o trail)]
  /\ UNCHANGED <<dvars, gvars, mvars, svars, rvars, cvars, bvars>>

PatternNext ==
  \/ \E pattern \in Patterns : compile(pattern)
  \/ \E fill \in [GroupNames(regexRun.compiled.regex.items) -> Fillers],
        lead \in Extras, trail \in Extras : exec(fill, lead, trail)

PatternSpec == Init /\ [][PatternNext]_vars

----------------------------------------------------------------------------
(* Actions of the shutdown *)

\* a shutdown that leaves the listeners of the client attached
removeAllListeners_Skipped(attached) == attached

\* `this.bot.removeAllListeners()`: no listener of the client stays attached
removeAllListeners(attached) == FALSE

\* a termination signal arrives: gracefulShutdown up to the await of destroy, or its
\* immediate return
gracefulShutdown(sig) ==
  /\ phase = "run"
  /\ Alive
  /\ Len(shutdowns) < MaxSignals
  /\ IF ShouldShutDown(isShuttingDown)
     THEN /\ isShuttingDown' = TRUE
          /\ listening' = removeAllListeners(listening)
          /\ effects' = effects \o ShutdownBegins
          /\ shutdowns' = Append(shutdowns, [signal |-> sig, pc |-> "awaitDestroy"])
     ELSE /\ shutdowns' = Append(shutdowns, [signal |-> sig, pc |-> "returned"])
          /\ UNCHANGED <<isShuttingDown, listening, effects>>
  /\ UNCHANGED <<dvars, gvars, mvars, rvars, nvars>>

\* the awaited bot.destroy() of invocation k completes or fails
destroySettles(k, ok) ==
  /\ Alive
  /\ k \in DOMAIN shutdowns
  /\ shutdowns[k].pc = "awaitDestroy"
  /\ IF AfterDestroy(ok) = "wait"
     THEN /\ shutdowns' = [shutdowns EXCEPT ![k].pc = "awaitWait"]
          /\ effects' = effects \o DestroyOutcome(ok) \o <<"wait">>
     ELSE /\ shutdowns' = [shutdowns EXCEPT ![k].pc = "rejected"]
          /\ effects' = effects
  /\ UNCHANGED <<isShuttingDown, listening>>
  /\ UNCHANGED <<dvars, gvars, mvars, rvars, nvars>>

\* the awaited wait(100) of invocation k is over: process.exit(0)
waitElapses(k) ==
  /\ Alive
  /\ k \in DOMAIN shutdowns
  /\ shutdowns[k].pc = "awaitWait"
  /\ shutdowns' = [shutdowns EXCEPT ![k].pc = "exited"]
  /\ effects' = Append(effects, "exit")
  /\ UNCHANGED <<isShuttingDown, listening>>
  /\ UNCHANGED <<dvars, gvars, mvars, rvars, nvars>>

\* a running application with message handlers that receives termination signals
ShutdownNext ==
  \/ \E c \in Controllers : MessageHandler(c, Undefined)
  \/ start
  \/ messageCreate(FALSE, S_ping)
  \/ messageHandlerSettles(FALSE)
  \/ eventDone
  \/ \E sig \in Signals : gracefulShutdown(sig)
  \/ \E k \in DOMAIN shutdowns, ok \in BOOLEAN : destroySettles(k, ok)
  \/ \E k \in DOMAIN shutdowns : waitElapses(k)

ShutdownSpec == Init /\ [][ShutdownNext]_vars

\* the promise of destroy settles and the timer of wait fires
ShutdownLive ==
  /\ ShutdownSpec
  /\ WF_vars(\E k \in DOMAIN shutdowns, ok \in BOOLEAN : destroySettles(k, ok))
  /\ WF_vars(\E k \in DOMAIN shutdowns : waitElapses(k))

\* a running application that receives events of the three kinds and termination
\* signals
DrainNext ==
  \/ Command(controllers[1], S_ping, "SLASH")
  \/ MessageHandler(controllers[1], Undefined)
  \/ ReactionHandler(controllers[1], Undefined)
  \/ start
  \/ handleInteraction("ChatInput", S_ping, <<>>)
  \/ HandlerReturns
  \/ interactionCreateDone
  \/ messageCreate(FALSE, S_ping)
  \/ messageHandlerSettles(FALSE)
  \/ messageReaction("ADD", <<"+1">>)
  \/ fetchSettles(TRUE)
  \/ reactionHandlerSettles(FALSE)
  \/ eventDone
  \/ \E sig \in Signals : gracefulShutdown(sig)
  \/ \E k \in DOMAIN shutdowns, ok \in BOOLEAN : destroySettles(k, ok)
  \/ \E k \in DOMAIN shutdowns : waitElapses(k)

DrainSpec == Init /\ [][DrainNext]_vars

----------------------------------------------------------------------------
(* Actions of the container bindings *)

\* the root class, the one that carries @MeoCord
Root == "App"

\* the classes of a program apart from its root class
Classes == {"PingController", "StatsService", "Mailer", "Clock", "Client"}

\* the design:paramtypes metadata of the classes: the constructor parameter types of
\* PingController, StatsService, Mailer and Clock
Deps(c, s, m, k) ==
  [cls \in Classes |->
     CASE cls = "PingController" -> c
       [] cls = "StatsService" -> s
       [] cls = "Mailer" -> m
       [] cls = "Clock" -> k
       [] OTHER -> <<>>]

\* the decorator each class carries: @Controller, @Service, or none of the framework
\* (a class that is only injectable); Client is the platform's class
Kinds(s, m, k) ==
  [cls \in Classes |->
     CASE cls = "PingController" -> "Controller"
       [] cls = "StatsService" -> s
       [] cls = "Mailer" -> m
       [] cls = "Clock" -> k
       [] OTHER -> "platform"]

\* the programs loaded: constructor parameter types, decorators, and the services
\* option of @MeoCord (its controllers option is PingController in each)
Programs ==
  {[name |-> "chain", services |-> <<>>,
    paramtypes |-> Deps(<<"StatsService">>, <<"Mailer">>, <<"Clock">>, <<>>),
    kinds |-> Kinds("Service", "Service", "Service")],
   [name |-> "plainChain", services |-> <<>>,
    paramtypes |-> Deps(<<"StatsService">>, <<"Mailer">>, <<"Clock">>, <<>>),
    kinds |-> Kinds("Service", "injectable", "injectable")],
   [name |-> "plainUnderController", services |-> <<"StatsService">>,
    paramtypes |-> Deps(<<"Mailer">>, <<>>, <<"Clock">>, <<>>),
    kinds |-> Kinds("Service", "injectable", "injectable")],
   [name |-> "diamond", services |-> <<>>,
    paramtypes |-> Deps(<<"StatsService", "Mailer">>, <<"Clock">>, <<"Clock">>, <<>>),
    kinds |-> Kinds("Service", "injectable", "injectable")],
   [name |-> "client", services |-> <<"StatsService">>,
    paramtypes |-> Deps(<<"StatsService">>, <<"Client", "Clock">>, <<>>, <<>>),
    kinds |-> Kinds("Service", "Service", "injectable")],
   [name |-> "cycle", services |-> <<>>,
    paramtypes |-> Deps(<<"StatsService">>, <<"Mailer">>, <<"StatsService">>, <<>>),
    kinds |-> Kinds("Service", "injectable", "Service")],
   [name |-> "selfLoop", services |-> <<"Mailer">>,
    paramtypes |-> Deps(<<>>, <<>>, <<"Mailer">>, <<>>),
    kinds |-> Kinds("Service", "injectable", "injectable")],
   [name |-> "plainCycle", services |-> <<"Mailer">>,
    paramtypes |-> Deps(<<>>, <<"Clock">>, <<"Clock">>, <<"Mailer">>),
    kinds |-> Kinds("Service", "injectable", "injectable")]}

\* the classes that carry a class decorator of the framework
Decorated(program) == {cls \in Classes : program.kinds[cls] \in {"Controller", "Service"}}

\* the classes named in a list of parameter types
ClassesOf(deps) == {deps[i] : i \in DOMAIN deps}

\* the classes reached from a set of classes through constructor parameter types
RECURSIVE Closure(_, _)
Closure(paramtypes, reached) ==
  IF UNION {ClassesOf(paramtypes[cls]) : cls \in reached} \subseteq reached
  THEN reached
  ELSE Closure(paramtypes, reached \cup UNION {ClassesOf(paramtypes[cls]) : cls \in reached})

\* the classes a class reaches through constructor parameter types, in one step or more
Reachable(paramtypes, cls) == Closure(paramtypes, ClassesOf(paramtypes[cls]))

\* the class lies on a cycle of constructor parameter types
OnCycle(paramtypes, cls) == cls \in Reachable(paramtypes, cls)

\* container.isBound(cls) that never finds a binding
isBound_Never(cont, cls) == FALSE

\* container.isBound(cls)
isBound(cont, cls) == \E b \in cont : b.cls = cls

\* container.bind(cls) in a scope
bind(cont, cls, scope) == cont \cup {[cls |-> cls, scope |-> scope]}

\* the parameter types that a decorator binding only its direct dependencies binds
Unbound(cont, deps) == SelectSeq(deps, LAMBDA dep : ~isBound(cont, dep))

\* the container after the classes of a list were bound in singleton scope
RECURSIVE bindAll(_, _)
bindAll(cont, deps) ==
  IF deps = <<>> THEN cont ELSE bindAll(bind(cont, Head(deps), "Singleton"), Tail(deps))

\* container.get(cls): the container builds an instance when the class and every
\* class it reaches are bound and none of them lies on a cycle
Resolves(cont, paramtypes, cls) ==
  \A c \in {cls} \cup Reachable(paramtypes, cls) : isBound(cont, c) /\ ~OnCycle(paramtypes, c)

\* a binding routine binds the parameter type dep and walks its constructor: both
\* routines pass a bound class by, and the one of @Service passes Client by
Visits(by, cont, dep) ==
  /\ ~isBound(cont, dep)
  /\ (by = "Service" => dep # "Client")

\* a pending forEach over a list of classes, about to take its element i
Frame(deps) == [deps |-> deps, i |-> 1]

\* the pending calls with the innermost forEach moved to its next element
Advanced(stack) == [stack EXCEPT ![Len(stack)].i = @ + 1]

\* a test of the container metadata that finds a container on every class
hasContainer_Always(meta, target) == TRUE

\* Reflect.getMetadata('inversify:container', target) is set
hasContainer(meta, target) == target \in meta

\* the modules of a program are loaded, with or without a configuration file that
\* loadMeoCordConfig can read
load(program, config) ==
  /\ boot.stage = "none"
  /\ boot' = [NoBoot EXCEPT !.stage = "load", !.program = program, !.config = config]
  /\ UNCHANGED <<container, binding>>
  /\ UNCHANGED <<dvars, gvars, mvars, svars, rvars, cvars, pvars>>

\* the @Controller decorator of a class: it binds the parameter types of the class that
\* are unbound, no further, and attaches the container to the class
Controller(target) ==
  /\ boot.stage = "load"
  /\ binding.status # "running"
  /\ target \in Decorated(boot.program) \ boot.decorated
  /\ boot.program.kinds[target] = "Controller"
  /\ container' = bindAll(container, Unbound(container, boot.program.paramtypes[target]))
  /\ binding' = [by |-> "Controller", target |-> target, stack |-> <<>>,
                 bound |-> Unbound(container, boot.program.paramtypes[target]),
                 status |-> "done"]
  /\ boot' = [boot EXCEPT !.decorated = @ \cup {target}, !.meta = @ \cup {target}]
  /\ UNCHANGED <<dvars, gvars, mvars, svars, rvars, cvars, pvars>>

\* the @Service decorator of a class: it binds the class when unbound and calls its
\* bindDependencies on the class
Service(target) ==
  /\ boot.stage = "load"
  /\ binding.status # "running"
  /\ target \in Decorated(boot.program) \ boot.decorated
  /\ boot.program.kinds[target] = "Service"
  /\ container' = IF isBound(container, target) THEN container
                  ELSE bind(container, target, "Singleton")
  /\ binding' = [by |-> "Service", target |-> target,
                 stack |-> <<Frame(boot.program.paramtypes[target])>>,
                 bound |-> IF isBound(container, target) THEN <<>> ELSE <<target>>,
                 status |-> "running"]
  /\ boot' = [boot EXCEPT !.decorated = @ \cup {target}]
  /\ UNCHANGED <<dvars, gvars, mvars, svars, rvars, cvars, pvars>>

\* the @MeoCord decorator of the root class: without a configuration it returns; with
\* one it binds Client and calls its bindDependencies on the controllers and services
MeoCord ==
  /\ boot.stage = "load"
  /\ binding.status # "running"
  /\ Root \notin boot.decorated
  /\ boot' = [boot EXCEPT !.decorated = @ \cup {Root}]
  /\ IF ~boot.config
     THEN /\ binding' = [by |-> "MeoCord", target |-> Root, stack |-> <<>>, bound |-> <<>>,
                         status |-> "done"]
          /\ UNCHANGED container
     ELSE /\ container' = bind(container, "Client", "Constant")
          /\ binding' = [by |-> "MeoCord", target |-> Root,
                         stack |-> <<Frame(<<"PingController">> \o boot.program.services)>>,
                         bound |-> <<>>, status |-> "running"]
  /\ UNCHANGED <<dvars, gvars, mvars, svars, rvars, cvars, pvars>>

\* the rest of @MeoCord once the controllers and services are bound: it gets the
\* services and the controllers from the container, binds the application and attaches
\* the container to the root class; a get that fails ends the load
AfterBinding(by, cont, bt) ==
  IF by # "MeoCord" THEN [container |-> cont, boot |-> bt]
  ELSE IF \A cls \in ClassesOf(<<"PingController">> \o bt.program.services) :
             Resolves(cont, bt.program.paramtypes, cls)
  THEN [container |-> bind(bind(cont, "MeoCordApp", "Constant"), Root, "Singleton"),
        boot |-> [bt EXCEPT !.meta = @ \cup {Root}]]
  ELSE [container |-> cont, boot |-> [bt EXCEPT !.stage = "failed"]]

\* one step of the binding routine that is running: the innermost forEach takes its
\* next class, binds it and walks its parameter types when it is visited, or ends
bindDependencies ==
  /\ binding.status = "running"
  /\ \E top \in {binding.stack[Len(binding.stack)]} :
       IF top.i > Len(top.deps)
       THEN IF Len(binding.stack) > 1
            THEN /\ binding' = [binding EXCEPT !.stack = SubSeq(@, 1, Len(@) - 1)]
                 /\ UNCHANGED <<container, boot>>
            ELSE \E r \in {AfterBinding(binding.by, container, boot)} :
                   /\ binding' = [binding EXCEPT !.stack = <<>>, !.status = "done"]
                   /\ container' = r.container
                   /\ boot' = r.boot
       ELSE IF Visits(binding.by, container, top.deps[top.i])
            THEN /\ Len(binding.stack) < MaxDepth
                 /\ container' = bind(container, top.deps[top.i], "Singleton")
                 /\ binding' = [binding EXCEPT
                                  !.stack = Append(Advanced(@),
                                                   Frame(boot.program.paramtypes[top.deps[top.i]])),
                                  !.bound = Append(@, top.deps[top.i])]
                 /\ UNCHANGED boot
            ELSE /\ binding' = [binding EXCEPT !.stack = Advanced(@)]
                 /\ UNCHANGED <<container, boot>>
  /\ UNCHANGED <<dvars, gvars, mvars, svars, rvars, cvars, pvars>>

\* the classes MeoCordFactory.create is called with: the root class, a controller, and
\* a class without a decorator
Targets == {Root, "PingController", "Bare"}

\* MeoCordFactory.create(target), called once every module is loaded: it throws when no
\* container is attached to the target, and gets the application from the container
create(target) ==
  /\ boot.stage = "load"
  /\ binding.status # "running"
  /\ Decorated(boot.program) \cup {Root} \subseteq boot.decorated
  /\ boot' = [boot EXCEPT
                !.target = target,
                !.created = IF ~hasContainer(boot.meta, target) THEN "NoContainer"
                            ELSE IF ~isBound(container, "MeoCordApp") THEN "NoBinding"
                            ELSE "app",
                !.stage = IF hasContainer(boot.meta, target) /\ isBound(container, "MeoCordApp")
                          THEN "created" ELSE "aborted"]
  /\ UNCHANGED <<container, binding>>
  /\ UNCHANGED <<dvars, gvars, mvars, svars, rvars, cvars, pvars>>

\* start() of the application that create returned
startCreated ==
  /\ boot.created = "app"
  /\ start

BootNext ==
  \/ \E program \in Programs, config \in BOOLEAN : load(program, config)
  \/ \E target \in Classes : Controller(target)
  \/ \E target \in Classes : Service(target)
  \/ MeoCord
  \/ bindDependencies
  \/ \E target \in Targets : create(target)
  \/ startCreated
  \/ boot.stage # "none" /\ MessageHandler(controllers[1], Undefined)
  \/ messageCreate(FALSE, S_ping)
  \/ messageHandlerSettles(FALSE)
  \/ eventDone

BootSpec == Init /\ [][BootNext]_vars

\* a binding routine is synchronous code: once called it runs on
BootLive == BootSpec /\ WF_vars(bindDependencies)

----------------------------------------------------------------------------
(* Properties of interaction dispatch *)

Range(q) == {q[i] : i \in DOMAIN q}

Min(S) == CHOOSE x \in S : \A y \in S : x <= y

\* the controller has an entry array for the event, as handleInteraction looks it up
Yields(c) ==
  /\ getCommandMap(c).defined
  /\ FindMetadataArray(commandMaps[c], interaction).defined
  /\ FindMetadataArray(commandMaps[c], interaction).metas # <<>>

ArrayOf(c) == FindMetadataArray(commandMaps[c], interaction).metas

\* positions, in registration order, of the controllers that have an array for the event
Yielding == {k \in DOMAIN controllers : Yields(controllers[k])}

DeclaresSlash(c, name) ==
  \E i \in DOMAIN commandMaps[c] :
     /\ commandMaps[c][i].name = name
     /\ \E j \in DOMAIN commandMaps[c][i].metas : commandMaps[c][i].metas[j].type = "SLASH"

SlashDeclarers == {k \in DOMAIN controllers : DeclaresSlash(controllers[k], interaction.id)}

\* C1: an interaction event invokes at most one handler method; for a chat-input
\* command whose name several controllers declare as SLASH, the handler invoked is a
\* SLASH handler of the first of them in registration order, never one of a later
\* controller.
C1_FirstControllerOnly ==
  /\ Len(invoked) <= 1
  /\ (isChatInputCommand(interaction) /\ invoked # <<>>) =>
       /\ SlashDeclarers # {}
       /\ invoked[1].ctrl = controllers[Min(SlashDeclarers)]
       /\ invoked[1].type = "SLASH"

C1_Witness ==
  /\ hi = "resolved"
  /\ interaction.kind = "ChatInput"
  /\ interaction.id = S_ping
  /\ Cardinality(SlashDeclarers) >= 2
  /\ Len(invoked) = 1
  /\ invoked[1].ctrl = controllers[1]
  /\ invoked[1].outcome = "returned"

\* C2: when no controller yields a metadata entry for the interaction, the dispatch
\* ends with no handler invoked and with exactly one 'Command not found!' reply if
\* the interaction is repliable, and no reply if it is not.
C2_NotFoundReply ==
  (hi # "idle" /\ Yielding = {}) =>
     /\ hi = "resolved"
     /\ invoked = <<>>
     /\ replies = IF isRepliable(interaction) THEN <<NotFoundText>> ELSE <<>>

C2_Witness ==
  /\ hi = "resolved"
  /\ Yielding = {}
  /\ regCount = MaxCommands
  /\ \A c \in Controllers : commandMaps[c] # <<>>
  /\ interaction.kind = "Button"
  /\ interaction.id = S_profile_4_2
  /\ invoked = <<>>
  /\ replies = <<NotFoundText>>

C4_ScanContinuesAfterMismatch ==
  \A k \in Yielding :
     ( /\ hi # "idle"
       /\ k = Min(Yielding)
       /\ ~TypeMatches(ArrayOf(controllers[k])[1].type, interaction)
       /\ \E j \in Yielding : j > k /\ TypeMatches(ArrayOf(controllers[j])[1].type, interaction) )
     => /\ MismatchLog[2] \in Range(logs)
        /\ \E n \in DOMAIN invoked : invoked[n].at > k

\* positions in the array of the entries whose category fits the interaction
Fitting(metas) == {i \in DOMAIN metas : TypeMatches(metas[i].type, interaction)}

\* C5 (as claimed): when the array found for the event holds several entries, the
\* handler invoked is the first entry whose category fits the event, whatever entry
\* of another category was registered before it under the same identifier.
C5_FirstFittingEntry ==
  \A k \in Yielding :
     ( /\ hi # "idle"
       /\ k = Min(Yielding)
       /\ Fitting(ArrayOf(controllers[k])) # {} )
     => /\ invoked # <<>>
        /\ invoked[1].ctrl = controllers[k]
        /\ invoked[1].methodName =
             ArrayOf(controllers[k])[Min(Fitting(ArrayOf(controllers[k])))].methodName

\* the parameter object that maps each option name to its (last) value
OptionObject(data) ==
  [n \in {data[i].name : i \in DOMAIN data} |->
     data[CHOOSE i \in DOMAIN data :
            data[i].name = n /\ \A j \in DOMAIN data : data[j].name = n => j <= i].value]

\* the metadata entries registered on controller c
MetasOf(c) == UNION {Range(commandMaps[c][i].metas) : i \in DOMAIN commandMaps[c]}

\* C6 (as claimed): a BUTTON, SELECT_MENU or MODAL_SUBMIT handler whose pattern
\* matches the custom identifier is invoked with the named groups captured from the
\* identifier as its parameter object; a SLASH handler is invoked with the object
\* that maps each option name to its value.
C6_ParamsAreCapturedGroups ==
  \A n \in DOMAIN invoked :
     /\ (isButton(interaction) \/ isStringSelectMenu(interaction) \/ isModalSubmit(interaction)) =>
          \A m \in MetasOf(invoked[n].ctrl) :
             ( /\ m.methodName = invoked[n].methodName
               /\ m.regex.defined
               /\ Exec(m.regex, interaction.id).hasGroups )
             => invoked[n].params = Exec(m.regex, interaction.id).groups
     /\ isChatInputCommand(interaction) =>
          invoked[n].params = OptionObject(interaction.options)

\* the same for the two component kinds the code does pass the groups to
C6_ButtonSelectParams ==
  (isModalSubmit(interaction) \/ C6_ParamsAreCapturedGroups)

C6_ButtonExample ==
  /\ hi = "awaitHandler"
  /\ interaction.kind = "Button"
  /\ interaction.id = S_profile_42
  /\ invoked[1].params = (S_id :> S_42)

----------------------------------------------------------------------------
(* Properties of the guard chain *)

Positions(k, ev) == {i \in DOMAIN gcalls[k].trace : gcalls[k].trace[i].ev = ev}

Passed(k) == {i \in Positions(k, "settled") : gcalls[k].trace[i].res = "true"}

Started(k) == gcalls[k].pc # "free"

\* the fields a guard instance made for this guard is to carry
ExpectedFields(guard) == IF guard.withParams THEN guard.params ELSE EmptyObject

\* C7: the first guard whose canActivate gives false ends the chain: nothing follows
\* it in the call's trace, neither the canActivate of a later guard nor the handler,
\* and the call returns
C7_FalseStopsChain ==
  \A k \in Calls : \A i \in Positions(k, "settled") :
    gcalls[k].trace[i].res = "false" =>
      /\ i = Len(gcalls[k].trace)
      /\ Positions(k, "handler") = {}
      /\ \A j \in Positions(k, "canActivate") : gcalls[k].trace[j].idx <= gcalls[k].trace[i].idx
      /\ gcalls[k].pc = "returned"

\* a chain of several guards whose first guard gave false
C7_Witness ==
  \E k \in Calls :
    /\ Started(k)
    /\ Len(guards[gcalls[k].method]) >= 2
    /\ \E i \in Positions(k, "settled") :
         gcalls[k].trace[i].res = "false" /\ gcalls[k].trace[i].idx = 1
    /\ gcalls[k].pc = "returned"

\* C8: the canActivate calls of one guarded call are those of the declared guards, in
\* declaration order and with the call's arguments, each but the first directly after
\* the previous guard gave true; the handler is invoked at most once, with the call's
\* arguments, and it is invoked exactly when every declared guard gave true
C8_DeclarationOrder ==
  \A k \in Calls : Started(k) =>
    /\ \A i \in Positions(k, "canActivate") :
         /\ gcalls[k].trace[i].idx = Cardinality({j \in Positions(k, "canActivate") : j <= i})
         /\ gcalls[k].trace[i].idx <= Len(guards[gcalls[k].method])
         /\ gcalls[k].trace[i].cls = guards[gcalls[k].method][gcalls[k].trace[i].idx].provide
         /\ gcalls[k].trace[i].args = gcalls[k].args
         /\ gcalls[k].trace[i].idx > 1 =>
              /\ gcalls[k].trace[i - 1].ev = "settled"
              /\ gcalls[k].trace[i - 1].idx = gcalls[k].trace[i].idx - 1
              /\ gcalls[k].trace[i - 1].res = "true"
    /\ Cardinality(Positions(k, "handler")) <= 1
    /\ \A i \in Positions(k, "handler") : gcalls[k].trace[i].args = gcalls[k].args
    /\ Positions(k, "handler") # {} <=>
         /\ gcalls[k].args[1].isBaseInteraction
         /\ Cardinality(Passed(k)) = Len(guards[gcalls[k].method])

\* three guards passed one after the other and the handler ran
C8_Witness ==
  \E k \in Calls :
    /\ Started(k)
    /\ Len(guards[gcalls[k].method]) = 3
    /\ Cardinality(Passed(k)) = 3
    /\ Positions(k, "handler") # {}
    /\ gcalls[k].pc = "returned"

\* C9: an error of canActivate ends the guarded call with that error: nothing follows
\* it in the call's trace, neither a later guard nor the handler, and the caller sees
\* the call fail, whereas after a rejection by a guard the caller sees it return
C9_GuardErrorPropagates ==
  \A k \in Calls : \A i \in Positions(k, "settled") :
    /\ gcalls[k].trace[i].res = "throw" =>
         /\ i = Len(gcalls[k].trace)
         /\ Positions(k, "handler") = {}
         /\ gcalls[k].pc = "threw"
         /\ gcalls[k].error = "GuardError"
    /\ gcalls[k].trace[i].res = "false" =>
         /\ gcalls[k].pc = "returned"
         /\ gcalls[k].error = ""

\* a guard that is not the last of its chain threw
C9_Witness ==
  \E k \in Calls :
    /\ Started(k)
    /\ gcalls[k].pc = "threw"
    /\ \E i \in Positions(k, "settled") :
         /\ gcalls[k].trace[i].res = "throw"
         /\ gcalls[k].trace[i].idx < Len(guards[gcalls[k].method])

\* the calls that wait for a canActivate
Awaiting == {k \in Calls : gcalls[k].pc = "awaitGuard"}

\* C10: no two guarded calls in flight hold the same guard instance, the instance a
\* call waits on carries exactly the params of that call's guard, and every canActivate
\* that has settled saw exactly the params of its own guard
C10_ParamsDoNotLeak ==
  /\ \A k1, k2 \in Awaiting : k1 # k2 => gcalls[k1].inst # gcalls[k2].inst
  /\ \A k \in Awaiting :
       instances[gcalls[k].inst] = ExpectedFields(guards[gcalls[k].method][gcalls[k].idx])
  /\ \A k \in Calls : \A i \in Positions(k, "settled") :
       gcalls[k].trace[i].seen =
         ExpectedFields(guards[gcalls[k].method][gcalls[k].trace[i].idx])

\* two calls wait on guards of one class that were given different params
C10_Witness ==
  \E k1, k2 \in Awaiting :
    /\ k1 # k2
    /\ guards[gcalls[k1].method][gcalls[k1].idx].provide
         = guards[gcalls[k2].method][gcalls[k2].idx].provide
    /\ guards[gcalls[k1].method][gcalls[k1].idx].params
         # guards[gcalls[k2].method][gcalls[k2].idx].params

----------------------------------------------------------------------------
(* Properties of message dispatch *)

Invocations == {i \in DOMAIN trace : trace[i].ev = "invoke"}

InvocationsOf(c, m) == {i \in Invocations : trace[i].ctrl = c /\ trace[i].method = m}

ControllerIndex(c) == CHOOSE k \in DOMAIN controllers : controllers[k] = c

\* a message event that is not ignored
MessageDispatch == event.type = "message" /\ ~event.bot /\ Trim(event.content) # <<>>

\* the entry's keyword is absent or is the trimmed content of the message
KeywordFits(h) == h.keyword = Undefined \/ h.keyword = Defined(Trim(event.content))

FittingEntries == {<<c, h>> \in Controllers \X UNION {Range(messageHandlers[c]) : c \in Controllers} :
                     h \in Range(messageHandlers[c]) /\ KeywordFits(h)}

\* both controllers have a 'ping' handler and an unfiltered handler, and nothing else
PingAndCatchAll ==
  \A c \in Controllers :
    /\ Len(messageHandlers[c]) = 2
    /\ {h.keyword : h \in Range(messageHandlers[c])} = {Undefined, Defined(S_ping)}

KeywordOf(c, m) == (CHOOSE h \in Range(messageHandlers[c]) : h.method = m).keyword

\* C12: the invocations of one message dispatch go through the controllers in
\* registration order, and within a controller no handler without a keyword is invoked
\* before a handler with a keyword
C12_FilteredBeforeCatchAll ==
  event.type = "message" =>
    \A i, j \in Invocations : i < j =>
      /\ ControllerIndex(trace[i].ctrl) <= ControllerIndex(trace[j].ctrl)
      /\ trace[i].ctrl = trace[j].ctrl =>
           ~(KeywordOf(trace[i].ctrl, trace[i].method) = Undefined
             /\ KeywordOf(trace[j].ctrl, trace[j].method) # Undefined)

\* a controller whose catch-all handler was registered before its keyword handler (it has
\* the lower method number) had both invoked, and both controllers were reached
C12_Witness ==
  /\ event.type = "message"
  /\ event.status = "done"
  /\ \E i, j \in Invocations :
       /\ trace[i].ctrl = trace[j].ctrl
       /\ trace[i].method < trace[j].method
       /\ KeywordOf(trace[i].ctrl, trace[i].method) = Undefined
       /\ KeywordOf(trace[j].ctrl, trace[j].method) # Undefined
  /\ {trace[i].ctrl : i \in Invocations} = Controllers

Throws == {i \in DOMAIN trace : trace[i].ev = "throw"}

\* C13: the dispatch of a message never ends with an error, every error of a handler is
\* followed by its log record, and when the dispatch is done as many handlers were
\* invoked as there are matching entries, however many of them threw
C13_MessageErrorIsolated ==
  event.type = "message" =>
    /\ event.status # "rejected"
    /\ \A i \in Throws : i < Len(trace) /\ trace[i + 1].ev = "error"
    /\ (MessageDispatch /\ event.status = "done") =>
         Cardinality(Invocations) = Cardinality(FittingEntries)

\* the first handler threw, and handlers of both controllers were invoked
C13_Witness ==
  /\ event.type = "message"
  /\ event.status = "done"
  /\ \E i \in Throws :
       /\ Cardinality({j \in Invocations : j < i}) = 1
       /\ \E j \in Invocations : j > i
  /\ {trace[i].ctrl : i \in Invocations} = Controllers

\* C14: for a message of a bot, or one whose content is empty or only whitespace, the
\* dispatch ends at once: nothing is invoked and no instance is asked for
C14_IgnoredMessages ==
  (event.type = "message" /\ (event.bot \/ Trim(event.content) = <<>>)) =>
    /\ trace = <<>>
    /\ event.status = "done"
    /\ event.relevant = <<>>

\* a bot wrote 'ping' while a controller has a handler for it
C14_Witness ==
  /\ event.type = "message"
  /\ event.bot
  /\ event.content = S_ping
  /\ event.status = "done"
  /\ \E c \in Controllers : \E h \in Range(messageHandlers[c]) : h.keyword = Defined(S_ping)

\* whitespace-only content from a user while a controller has a catch-all handler
C14_WitnessBlank ==
  /\ event.type = "message"
  /\ ~event.bot
  /\ event.content = S_blank
  /\ event.status = "done"
  /\ \E c \in Controllers : \E h \in Range(messageHandlers[c]) : h.keyword = Undefined

----------------------------------------------------------------------------
(* Properties of reaction dispatch *)

Fetched == {i \in DOMAIN trace : trace[i].ev = "fetched"}

\* C15: in a reaction dispatch every handler invocation, and every request for a
\* controller instance, comes after the completion of the fetch of the target message;
\* while the fetch is awaited nothing else has been done
C15_FetchBeforeHandlers ==
  event.type = "reaction" =>
    /\ \A i \in DOMAIN trace :
         trace[i].ev \in {"invoke", "get"} => \E j \in Fetched : j < i
    /\ event.status = "fetching" => trace = <<Did("fetch", "", 0, "")>>

\* a reaction handler is running
C15_Witness ==
  /\ event.type = "reaction"
  /\ event.status = "inHandler"
  /\ Invocations # {}

\* the entry's emoji is absent or is the emoji of the reaction
EmojiFits(h) == h.emoji = Undefined \/ h.emoji = Defined(event.emoji)

FittingReactionEntries ==
  {<<c, h>> \in Controllers \X UNION {Range(reactionHandlers[c]) : c \in Controllers} :
     h \in Range(reactionHandlers[c]) /\ EmojiFits(h)}

EmojiOf(c, m) == (CHOOSE h \in Range(reactionHandlers[c]) : h.method = m).emoji

\* C16: for an added and for a removed reaction alike, only entries whose emoji is absent
\* or is the reaction's emoji are invoked, each at most once, with the event's user and
\* its action tag; entries with an emoji come before entries without one in a
\* controller; an error of a handler is logged and does not end the dispatch, and a
\* finished dispatch has invoked every such entry of every controller
C16_ReactionDispatch ==
  event.type = "reaction" =>
    /\ event.action \in ReactionHandlerAction
    /\ \A i \in Invocations :
         /\ \E h \in Range(reactionHandlers[trace[i].ctrl]) :
              h.method = trace[i].method /\ EmojiFits(h)
         /\ Cardinality(InvocationsOf(trace[i].ctrl, trace[i].method)) = 1
         /\ trace[i].detail = [emoji |-> event.emoji,
                               options |-> [user |-> User, action |-> event.action]]
    /\ \A i, j \in Invocations : i < j =>
         /\ ControllerIndex(trace[i].ctrl) <= ControllerIndex(trace[j].ctrl)
         /\ trace[i].ctrl = trace[j].ctrl =>
              ~(EmojiOf(trace[i].ctrl, trace[i].method) = Undefined
                /\ EmojiOf(trace[j].ctrl, trace[j].method) # Undefined)
    /\ \A i \in Throws : i < Len(trace) /\ trace[i + 1].ev = "error"
    /\ event.status = "rejected" => Invocations = {}
    /\ event.status = "done" =>
         \A e \in FittingReactionEntries : Cardinality(InvocationsOf(e[1], e[2].method)) = 1

\* a removed reaction was dispatched to a catch-all registered first and to an emoji
\* handler registered after it, and a handler that threw was followed by another
C16_Witness ==
  /\ event.type = "reaction"
  /\ event.action = "REMOVE"
  /\ event.status = "done"
  /\ \E i, j \in Invocations :
       /\ trace[i].ctrl = trace[j].ctrl
       /\ trace[i].method < trace[j].method
       /\ EmojiOf(trace[i].ctrl, trace[i].method) = Undefined
       /\ EmojiOf(trace[j].ctrl, trace[j].method) # Undefined
  /\ \E i \in Throws : \E j \in Invocations : j > i

\* the same for an added reaction
C16_WitnessAdd ==
  /\ event.type = "reaction"
  /\ event.action = "ADD"
  /\ event.status = "done"
  /\ Cardinality(Invocations) >= 2
  /\ \E i \in Throws : \E j \in Invocations : j > i

----------------------------------------------------------------------------
(* Properties of the controller instance cache *)

\* the keys under which an instance of controller c is cached; each of them was filled
\* by one call of the container
KeysOf(c) == {k \in cache : k.of = c}

\* C17: every cached instance is stored under the controller's class, and for no
\* controller is the container asked more than once, whichever paths reach it
C17_OneInstancePerClass ==
  /\ \A k \in cache : k.by = "class"
  /\ \A c \in Controllers : Cardinality(KeysOf(c)) <= 1

\* what holds instead: each path asks the container at most once for a controller, the
\* interaction path under the controller object and the message and reaction paths
\* under its class
C17_OneInstancePerKey ==
  /\ \A c \in Controllers : KeysOf(c) \subseteq {InteractionCacheKey(c), ClassCacheKey(c)}
  /\ \A i, j \in DOMAIN trace :
       (trace[i].ev = "get" /\ trace[j].ev = "get" /\ trace[i].ctrl = trace[j].ctrl) => i = j
  /\ \A i \in DOMAIN trace : trace[i].ev = "get" => ClassCacheKey(trace[i].ctrl) \in cache

\* a controller reached by a message and by an interaction
C17_BothPaths ==
  \E c \in Controllers : KeysOf(c) = {InteractionCacheKey(c), ClassCacheKey(c)}

----------------------------------------------------------------------------
(* Properties of the shutdown *)

Count(q, x) == Cardinality({i \in DOMAIN q : q[i] = x})

\* C18: the listeners are detached and the connection is destroyed at most once; every
\* invocation of gracefulShutdown after the first returns at once, and no invocation
\* ends with an error
C18_SecondShutdownIsNoOp ==
  /\ Count(effects, "destroy") <= 1
  /\ Count(effects, "removeAllListeners") <= 1
  /\ \A k \in DOMAIN shutdowns :
       /\ k > 1 => shutdowns[k].pc = "returned"
       /\ shutdowns[k].pc # "rejected"

\* SIGTERM arrived while the shutdown begun by SIGINT was waiting for destroy
C18_Witness ==
  /\ Len(shutdowns) = 2
  /\ shutdowns[1] = [signal |-> "SIGINT", pc |-> "awaitDestroy"]
  /\ shutdowns[2] = [signal |-> "SIGTERM", pc |-> "returned"]

\* the two courses of a shutdown, with destroy completing and with destroy failing
ShutdownCourses ==
  {<<"removeAllListeners", "destroy", "log:Bot has shut down", "wait", "exit">>,
   <<"removeAllListeners", "destroy", "error:Error during shutdown", "wait", "exit">>}

IsPrefix(p, q) == Len(p) <= Len(q) /\ SubSeq(q, 1, Len(p)) = p

\* the steps of the shutdown are taken in order: detach the listeners, destroy the
\* connection, wait, exit
ShutdownInOrder == \E course \in ShutdownCourses : IsPrefix(effects, course)

\* C19: the steps of the shutdown always come in the order detach, destroy, wait, exit,
\* and once a shutdown has begun the exit is eventually reached, whether destroy
\* completes or fails
C19_ShutdownReachesExit == [](ShutdownInOrder) /\ (isShuttingDown ~> Exited)

\* the process exited although destroy had failed
C19_Witness ==
  effects = <<"removeAllListeners", "destroy", "error:Error during shutdown", "wait", "exit">>

----------------------------------------------------------------------------
(* Properties of command registration *)

\* the registered metadata entries, each named by controller, identifier and position
Entries ==
  {<<c, n, j>> \in Controllers \X (1..MaxCommands) \X (1..MaxCommands) :
     n \in DOMAIN commandMaps[c] /\ j \in DOMAIN commandMaps[c][n].metas}

EntryAt(e) == commandMaps[e[1]][e[2]].metas[e[3]]

WithBuilder == {e \in Entries : EntryAt(e).builder # Undefined}

\* C20: a run of registerCommands makes one call of commands.set and no more, and the
\* list that call submits holds the builder of every entry that has one, once per
\* entry, and nothing else
C20_OneBulkSet ==
  /\ Len(setCalls) = readyEvents
  /\ application <=> readyEvents > 0
  /\ \A k \in DOMAIN setCalls :
       /\ Len(setCalls[k].builders) = Cardinality(WithBuilder)
       /\ \A i \in DOMAIN setCalls[k].builders :
            Count(setCalls[k].builders, setCalls[k].builders[i])
              = Cardinality({e \in WithBuilder :
                               EntryAt(e).builder = Defined(setCalls[k].builders[i])})

\* the builder of the second controller's entry was submitted, the first controller's
\* entry without a builder was not
C20_Witness ==
  /\ Len(setCalls) = 1
  /\ setCalls[1].status = "registered"
  /\ Len(setCalls[1].builders) = 1
  /\ \E e \in Entries : e[1] = controllers[1] /\ EntryAt(e).builder = Undefined
  /\ \E e \in WithBuilder : e[1] = controllers[2]

\* the builders of both controllers were submitted in one call
C20_WitnessTwo ==
  /\ Len(setCalls) = 1
  /\ Len(setCalls[1].builders) = 2
  /\ {e[1] : e \in WithBuilder} = Controllers

\* C21: command registration runs exactly once per process lifetime and only after the
\* client signalled readiness: no call of commands.set is made before 'ready', and no
\* second one whatever events follow
C21_RegisteredOnce ==
  /\ setCalls # <<>> => application
  /\ Len(setCalls) <= 1

\* registration never runs before the first 'ready', and it runs once for every 'ready'
C21_OncePerReady ==
  /\ setCalls # <<>> => application
  /\ Len(setCalls) = readyEvents

\* a second 'ready' made registerCommands run a second time
C21_RegisteredTwice ==
  /\ readyEvents = 2
  /\ Len(setCalls) = 2
  /\ setCalls[1].status = "registered"

----------------------------------------------------------------------------
(* Properties of a failed registration *)

\* a call of commands.set has failed
SetFailed == \E k \in DOMAIN setCalls : setCalls[k].status = "errorLogged"

\* C22: a failure of commands.set is logged and does not leave registerCommands; the
\* process does not exit, interaction, message and reaction events are still accepted,
\* and the events dispatched reach their handlers
C22_SetFailureSwallowed ==
  /\ \A k \in DOMAIN setCalls : setCalls[k].status \in {"pending", "registered", "errorLogged"}
  /\ Alive
  /\ SetFailed =>
       /\ hi = "idle" => ENABLED handleInteraction("ChatInput", S_ping, <<>>)
       /\ event.status = "idle" =>
            /\ ENABLED messageCreate(FALSE, S_ping)
            /\ ENABLED messageReaction("ADD", <<"+1">>)
       /\ (hi = "resolved" /\ Yielding # {}
             /\ ArrayOf(controllers[Min(Yielding)])[1].type = "SLASH") =>
            Len(invoked) = 1 /\ invoked[1].ctrl = controllers[Min(Yielding)]
       /\ (event.type = "message" /\ event.status = "done") =>
            \A e \in FittingEntries : Cardinality(InvocationsOf(e[1], e[2].method)) = 1
       /\ (event.type = "reaction" /\ event.status = "done") =>
            \A e \in FittingReactionEntries : Cardinality(InvocationsOf(e[1], e[2].method)) = 1

\* the only registration failed, and an interaction and a message were dispatched to
\* their handlers
C22_Witness ==
  /\ readyEvents = 1
  /\ setCalls[1].status = "errorLogged"
  /\ hi = "resolved"
  /\ Len(invoked) = 1
  /\ event.type = "message"
  /\ event.status = "done"
  /\ Cardinality(Invocations) = 1

\* the only registration failed, and a reaction was dispatched to its handler
C22_WitnessReaction ==
  /\ readyEvents = 1
  /\ setCalls[1].status = "errorLogged"
  /\ event.type = "reaction"
  /\ event.status = "done"
  /\ Cardinality(Invocations) = 1

----------------------------------------------------------------------------
(* Properties of overlapping events *)

InvocationsIn(tr) == {i \in DOMAIN tr : tr[i].ev = "invoke"}

\* the events whose dispatch awaits a handler
Suspended == {k \in DOMAIN events : events[k].event.status = "inHandler"}

\* the invocation the dispatch of the k-th event is suspended in
AwaitedBy(k) == events[k].trace[Len(events[k].trace)]

FitsContent(h, content) == h.keyword = Undefined \/ h.keyword = Defined(Trim(content))

\* the k-th event has been dispatched to (c, method) exactly once
DispatchedOnce(k, c, method) ==
  Cardinality({i \in InvocationsIn(events[k].trace) :
                 events[k].trace[i].ctrl = c /\ events[k].trace[i].method = method}) = 1

\* C23: events are not serialised: while the dispatch of an event is suspended in a
\* handler, a further message and an interaction are accepted, every other suspended
\* dispatch can go on, and each event is dispatched to its own matching handlers, once
\* each, and to all of them when its dispatch completes, whatever the other events do
C23_NoMutualExclusion ==
  /\ \A k \in DOMAIN events :
       /\ \A i \in InvocationsIn(events[k].trace) :
            /\ \E h \in Range(messageHandlers[events[k].trace[i].ctrl]) :
                 /\ h.method = events[k].trace[i].method
                 /\ FitsContent(h, events[k].event.content)
            /\ DispatchedOnce(k, events[k].trace[i].ctrl, events[k].trace[i].method)
            /\ events[k].trace[i].detail = events[k].event.content
       /\ events[k].event.status = "done" =>
            \A c \in Controllers : \A h \in Range(messageHandlers[c]) :
               FitsContent(h, events[k].event.content) => DispatchedOnce(k, c, h.method)
  /\ Suspended # {} =>
       /\ Len(events) < MaxEvents => ENABLED messageArrives(FALSE, S_ping)
       /\ hi = "idle" => ENABLED handleInteraction("ChatInput", S_ping, <<>>)
       /\ hi = "awaitHandler" => ENABLED HandlerReturns
       /\ \A j \in Suspended : ENABLED handlerOfSettles(j, FALSE)

\* the first message is still in its first handler, and a second message, received
\* later, has been dispatched to the same handler and has completed
C23_Witness ==
  /\ Len(events) = 2
  /\ events[1].event.status = "inHandler"
  /\ Cardinality(InvocationsIn(events[1].trace)) = 1
  /\ events[2].event.status = "done"
  /\ \E i \in InvocationsIn(events[2].trace) :
       /\ events[2].trace[i].ctrl = AwaitedBy(1).ctrl
       /\ events[2].trace[i].method = AwaitedBy(1).method

\* an interaction was dispatched and its handler returned while a message was suspended
C23_WitnessInteraction ==
  /\ Suspended # {}
  /\ hi = "resolved"
  /\ Len(invoked) = 1
  /\ invoked[1].outcome = "returned"

----------------------------------------------------------------------------
(* Properties of pattern compilation and matching *)

\* the non-empty alphanumeric strings of up to four characters over two characters
AlnumValues == UNION {[1..n -> {"4", "x"}] : n \in 1..4}

IsAlnumValue(v) == v # <<>> /\ \A i \in DOMAIN v : v[i] \in AlnumChars

\* s is the pattern with a non-empty alphanumeric value in the place of every placeholder
IsInstance(pattern, s) ==
  \E f \in [GroupNames(RegexItems(pattern)) -> AlnumValues] : Substitute(pattern, f) = s

C24_WitnessRejected ==
  /\ regexRun.stage = "matched"
  /\ regexRun.pattern = S_profile_id
  /\ regexRun.subject = S_profile_4_2
  /\ ~regexRun.match.ok

\* a pattern of two placeholders has rejected a string with an empty value and one with
\* a character added behind
C24_WitnessEmpty ==
  /\ regexRun.stage = "matched"
  /\ regexRun.pattern = S_id_dash_x
  /\ regexRun.fill[S_id] = <<>>
  /\ regexRun.trail = <<"-">>
  /\ ~regexRun.match.ok

\* the texts the pattern holds between an opening brace and the next closing brace
BraceTexts(pattern) ==
  {SubSeq(pattern, i + 1, j - 1) :
     <<i, j>> \in {<<i, j>> \in (DOMAIN pattern) \X (DOMAIN pattern) :
                     /\ i < j
                     /\ pattern[i] = "{"
                     /\ pattern[j] = "}"
                     /\ \A k \in (i + 1)..(j - 1) : pattern[k] # "}"}}

\* C25: the compilation of a pattern with a placeholder whose name does not match ^\w+$
\* ends with the invalid-parameter-name error and yields no expression
C25_InvalidNameRejected ==
  (regexRun.stage # "none" /\ \E name \in BraceTexts(regexRun.pattern) : InvalidParameterName(name))
    => /\ regexRun.compiled.error = "InvalidParameterName"
       /\ ~regexRun.compiled.regex.defined

\* no compilation ever ends with the invalid-parameter-name error: the callback that
\* tests the name is only called with names that match \w+
C25_CheckNeverFails == regexRun.compiled.error # "InvalidParameterName"

\* 'x-{bad-name}' was compiled to an expression without groups, which accepts the
\* text 'x-{bad-name}' itself
C25_LiteralMatcher ==
  /\ regexRun.stage = "matched"
  /\ regexRun.pattern = S_x_bad_name
  /\ regexRun.compiled.error = "none"
  /\ regexRun.compiled.params = <<>>
  /\ regexRun.subject = S_x_bad_name
  /\ regexRun.match.ok

----------------------------------------------------------------------------
(* Properties of the command map *)

\* the method names of the entries of one controller, identifier by identifier
RECURSIVE MethodNames(_)
MethodNames(commandMap) ==
  IF commandMap = <<>> THEN {}
  ELSE {Head(commandMap).metas[j].methodName : j \in DOMAIN Head(commandMap).metas}
         \cup MethodNames(Tail(commandMap))

\* every registration made so far has its entry, and the entries of an identifier are in
\* the order of their registration
AllEntriesKept ==
  /\ \A c \in Controllers :
       /\ MethodNames(commandMaps[c]) = 1..CountMetas(commandMaps[c])
       /\ \A n \in DOMAIN commandMaps[c] : \A i, j \in DOMAIN commandMaps[c][n].metas :
            i < j => commandMaps[c][n].metas[i].methodName < commandMaps[c][n].metas[j].methodName
  /\ CountMetas(commandMaps[controllers[1]]) + CountMetas(commandMaps[controllers[2]]) = regCount

\* a step leaves every identifier of a map in its place and every entry array as the
\* beginning of the array after the step
EntriesOnlyAppended ==
  \A c \in Controllers :
    /\ Len(commandMaps[c]) <= Len(commandMaps'[c])
    /\ \A n \in DOMAIN commandMaps[c] :
         /\ commandMaps'[c][n].name = commandMaps[c][n].name
         /\ IsPrefix(commandMaps[c][n].metas, commandMaps'[c][n].metas)

----------------------------------------------------------------------------
(* Properties of the container bindings *)

\* every class decorator of the program has run, and none is running
AllDecorated ==
  /\ boot.stage # "none"
  /\ binding.status # "running"
  /\ Decorated(boot.program) \cup {Root} \subseteq boot.decorated

\* the constructor parameter types of the program form no cycle
Acyclic(program) == \A cls \in Classes : ~OnCycle(program.paramtypes, cls)

\* what a bound controller or service class reaches is bound
ReachableBound ==
  \A cls \in Decorated(boot.program) :
     isBound(container, cls)
       => \A dep \in Reachable(boot.program.paramtypes, cls) : isBound(container, dep)

\* C27: once the decorators of a program without a cycle have run, in whatever order,
\* with a configuration loaded, every class that a bound controller or service class
\* reaches through constructor parameter types is bound.
C27_ReachableClassesBound ==
  (AllDecorated /\ boot.config /\ Acyclic(boot.program)) => ReachableBound

\* the parameter types of the controllers carry @Service
ControllerDepsDecorated(program) ==
  \A cls \in Decorated(program) :
     program.kinds[cls] = "Controller"
       => \A dep \in ClassesOf(program.paramtypes[cls]) : program.kinds[dep] = "Service"

\* what holds of the code: the same, of the programs whose controllers take only
\* @Service classes as constructor parameters
C27_BoundUnderServices ==
  (AllDecorated /\ boot.config /\ Acyclic(boot.program)
     /\ ControllerDepsDecorated(boot.program)) => ReachableBound

\* a class that is only injectable was bound by the walk of a routine, two levels
\* below the class the routine was called on
C27_WalkedBelow ==
  /\ AllDecorated /\ boot.config /\ boot.program.name = "plainChain"
  /\ ReachableBound
  /\ isBound(container, "Clock")

\* the classes a routine has bound in its run, those on a cycle
BoundOnCycle ==
  {i \in DOMAIN binding.bound : OnCycle(boot.program.paramtypes, binding.bound[i])}

\* C28: a binding routine that has bound a class lying on a cycle of constructor
\* parameter types never returns.
C28_CycleNeverReturns ==
  (binding.by \in {"Service", "MeoCord"} /\ BoundOnCycle # {}) => binding.status = "running"

\* no run of a routine binds a class twice
NoClassBoundTwice ==
  \A i, j \in DOMAIN binding.bound : binding.bound[i] = binding.bound[j] => i = j

\* C28 (amended): a binding routine returns on a program with a cycle as on any other,
\* having bound no class twice.
C28_CyclicBindingReturns ==
  /\ [](NoClassBoundTwice)
  /\ (binding.status = "running" /\ ~Acyclic(boot.program)) ~> (binding.status = "done")

\* a routine has returned after binding the two classes of a cycle
C28_Witness ==
  /\ binding.status = "done"
  /\ binding.by = "Service"
  /\ Cardinality(BoundOnCycle) = 2
  /\ \A i \in BoundOnCycle : \A j \in BoundOnCycle :
        binding.bound[j] \in Reachable(boot.program.paramtypes, binding.bound[i])

----------------------------------------------------------------------------
(* Properties of the factory *)

\* nothing of the application runs: no listener is attached and no event was received
NothingStarted ==
  /\ phase = "load"
  /\ ~listening
  /\ event = NoEvent
  /\ trace = <<>>

\* C30: MeoCordFactory.create called with a class that has no container attached throws
\* the error 'No container found on the target class.' and returns no application, and
\* then no listener is attached and no event is served; the root class has no container
\* attached when @MeoCord found no configuration.
C30_NoContainerAborts ==
  /\ (boot.created # "none" /\ boot.target \notin boot.meta)
       => (boot.created = "NoContainer" /\ boot.stage = "aborted" /\ NothingStarted)
  /\ (boot.stage # "none" /\ ~boot.config) => Root \notin boot.meta

\* create threw on the root class whose @MeoCord decorator found no configuration
C30_Witness ==
  /\ boot.created = "NoContainer"
  /\ boot.target = Root
  /\ Root \in boot.decorated
  /\ ~boot.config

\* create returned the application of a root class with a container, and it serves
C30_WitnessStarted ==
  /\ boot.created = "app"
  /\ boot.target = Root
  /\ listening
  /\ event.status = "inHandler"

----------------------------------------------------------------------------
(* Properties of the fallback replies *)

\* C29: every reply the dispatcher sends is one of the two fixed texts, and the
\* replies of a dispatch whose handler threw are those the dispatch would have sent
\* had the handler thrown any other error.
C29_RepliesIndependentOfError ==
  /\ \A i \in DOMAIN replies : replies[i] \in {NotFoundText, ErrorText}
  /\ \A n \in DOMAIN invoked :
       invoked[n].outcome \in Errors
         => \A e \in Errors : replies = CatchHandlerError(interaction, e).replies

\* the handler threw E2 and the generic reply was sent
C29_Witness ==
  /\ hi = "resolved"
  /\ Len(invoked) = 1
  /\ invoked[1].outcome = "E2"
  /\ [level |-> "error", detail |-> "E2"] \in Range(logs)
  /\ replies = <<ErrorText>>

\* no entry was found and the other fixed text was sent
C29_WitnessNotFound ==
  /\ hi = "resolved"
  /\ invoked = <<>>
  /\ replies = <<NotFoundText>>
  /\ regCount > 0

----------------------------------------------------------------------------
(* Properties of static component identifiers *)

\* the registered entries: controller position k, position i in its map, position j in
\* the array of the identifier
EntryPositions ==
  {p \in (DOMAIN controllers) \X (1..MaxCommands + 1) \X (1..MaxCommands + 1) :
     /\ p[2] \in DOMAIN commandMaps[controllers[p[1]]]
     /\ p[3] \in DOMAIN commandMaps[controllers[p[1]]][p[2]].metas}

NameAt(p) == commandMaps[controllers[p[1]]][p[2]].name

MetaAt(p) == commandMaps[controllers[p[1]]][p[2]].metas[p[3]]

\* the entry is a component handler registered under an identifier without placeholders
StaticComponent(p) ==
  /\ MetaAt(p).type \in {"BUTTON", "SELECT_MENU", "MODAL_SUBMIT"}
  /\ createRegexFromPattern(NameAt(p)).params = <<>>

\* the order in which the scan comes to the entries
ScannedBefore(q, p) ==
  \/ q[1] < p[1]
  \/ q[1] = p[1] /\ q[2] < p[2]
  \/ q[1] = p[1] /\ q[2] = p[2] /\ q[3] < p[3]

\* the event is of the category of the entry and its identifier fits the entry
FitsEvent(p) ==
  /\ TypeMatches(MetaAt(p).type, interaction)
  /\ MetaTest(MetaAt(p), NameAt(p), interaction.id).hit

\* the handler of the entry was invoked for the event
SelectedFor(p) ==
  \E n \in DOMAIN invoked :
     /\ invoked[n].ctrl = controllers[p[1]]
     /\ invoked[n].methodName = MetaAt(p).methodName

\* the identifier of the event fits an entry that the scan comes to before p, whatever
\* its category, or p is not the first entry of its array
FoundBefore(p) ==
  \/ p[3] > 1
  \/ \E q \in EntryPositions :
        /\ ScannedBefore(q, p)
        /\ <<q[1], q[2]>> # <<p[1], p[2]>>
        /\ MetaTest(MetaAt(q), NameAt(q), interaction.id).hit

\* C31: a BUTTON, SELECT_MENU or MODAL_SUBMIT handler registered under an identifier
\* without placeholders is invoked only for events of its category whose custom
\* identifier equals the identifier, with an empty parameter object, and it is invoked
\* for every such event that no handler of the category scanned before it fits.
C31_StaticHandlerSelected ==
  (hi # "idle") =>
     \A p \in EntryPositions :
        StaticComponent(p) =>
          /\ SelectedFor(p) =>
               /\ TypeMatches(MetaAt(p).type, interaction)
               /\ interaction.id = NameAt(p)
               /\ \A n \in DOMAIN invoked : invoked[n].params = <<>>
          /\ ( /\ TypeMatches(MetaAt(p).type, interaction)
               /\ interaction.id = NameAt(p)
               /\ \A q \in EntryPositions : ScannedBefore(q, p) => ~FitsEvent(q) )
             => SelectedFor(p)

\* what holds of the code: the same, of the entries that are first in their array and
\* before which the scan finds no entry of any category for the identifier
C31_FirstFoundSelected ==
  (hi # "idle") =>
     \A p \in EntryPositions :
        StaticComponent(p) =>
          /\ SelectedFor(p) =>
               /\ TypeMatches(MetaAt(p).type, interaction)
               /\ interaction.id = NameAt(p)
               /\ \A n \in DOMAIN invoked : invoked[n].params = <<>>
          /\ ( /\ TypeMatches(MetaAt(p).type, interaction)
               /\ interaction.id = NameAt(p)
               /\ ~FoundBefore(p) )
             => SelectedFor(p)

\* a modal handler under a static identifier was invoked with the empty object
C31_StaticInvoked ==
  /\ hi = "awaitHandler"
  /\ interaction.kind = "ModalSubmit"
  /\ interaction.id = S_ping
  /\ \E p \in EntryPositions : StaticComponent(p) /\ SelectedFor(p) /\ p[1] = 2
  /\ invoked[1].params = <<>>

----------------------------------------------------------------------------
(* Properties of a malformed guard *)

\* positions in the chain of method m of the guards whose class has no canActivate
Malformed(m) == {b \in DOMAIN guards[m] : guards[m][b].provide = "NotAGuard"}

\* C32: a guarded call whose chain holds a guard without canActivate fails with the
\* malformed-guard error when it comes to that guard, after the guards before it were
\* evaluated and gave true; canActivate of that guard and of the later guards is not
\* invoked, and neither is the handler.
C32_MalformedGuardFails ==
  \A k \in Calls : Started(k) =>
    \A b \in Malformed(gcalls[k].method) :
       /\ \A i \in Positions(k, "canActivate") : gcalls[k].trace[i].idx < b
       /\ Positions(k, "handler") = {}
       /\ (gcalls[k].args[1].isBaseInteraction /\ Cardinality(Passed(k)) = b - 1) =>
            /\ gcalls[k].pc = "threw"
            /\ gcalls[k].error = "MalformedGuard"
       /\ gcalls[k].error = "MalformedGuard" =>
            /\ \A j \in 1..(b - 1) :
                 \E i \in Passed(k) : gcalls[k].trace[i].idx = j
            /\ Len(gcalls[k].trace) = 2 * (b - 1)

\* the first guard of the chain gave true and the call failed at the malformed second
C32_Witness ==
  \E k \in Calls :
    /\ gcalls[k].method = "broken"
    /\ gcalls[k].pc = "threw"
    /\ gcalls[k].error = "MalformedGuard"
    /\ Cardinality(Passed(k)) = 1
    /\ Len(guards[gcalls[k].method]) = 3

----------------------------------------------------------------------------
(* Properties of the dispatch of guarded handlers *)

\* the handler invoked for the event is a wrapper in which a guard gave a falsy value
GuardRejected ==
  /\ hi # "idle"
  /\ invoked # <<>>
  /\ \E i \in Positions(CurrentCall, "settled") : gcalls[CurrentCall].trace[i].res = "false"

\* C33: when a guard rejects the handler that the dispatch invoked, the dispatch ends
\* as after a handler that returned: no further controller is scanned, no other
\* handler is invoked, and neither of the two fallback replies is sent.
C33_RejectionIsHandled ==
  GuardRejected =>
     /\ hi \in {"awaitHandler", "resolved"}
     /\ Len(invoked) = 1
     /\ invoked[1].at = Min(Yielding)
     /\ replies = <<>>
     /\ logs = InfoLog
     /\ Positions(CurrentCall, "handler") = {}
     /\ hi = "awaitHandler" => (ENABLED wrapperReturns /\ ~ENABLED wrapperThrows)
     /\ hi = "resolved" => invoked[1].outcome = "returned"

\* the second guard of the chain rejected the handler of the first controller, a later
\* controller has a handler for the event too, and the dispatch is over
C33_Witness ==
  /\ GuardRejected
  /\ hi = "resolved"
  /\ Cardinality(Yielding) = 2
  /\ invoked[1].ctrl = controllers[1]
  /\ Cardinality(Passed(CurrentCall)) = 1
  /\ replies = <<>>

\* a wrapper that threw ended in the generic error reply
C33_WitnessThrew ==
  /\ hi = "resolved"
  /\ invoked # <<>>
  /\ gcalls[CurrentCall].error = "GuardError"
  /\ replies = <<ErrorText>>

----------------------------------------------------------------------------
(* Properties of the fallback replies of one event *)

\* C34: one interaction dispatch sends at most one reply of its own: never both
\* 'Command not found!' and the generic error reply, and never 'Command not found!'
\* when it invoked a handler.
C34_AtMostOneFallback ==
  /\ Len(replies) <= 1
  /\ ~(NotFoundText \in Range(replies) /\ ErrorText \in Range(replies))
  /\ invoked # <<>> => NotFoundText \notin Range(replies)

\* the handler of the first controller threw while the second controller has no entry
\* for the event: the error reply was sent and nothing else
C34_Witness ==
  /\ hi = "resolved"
  /\ Len(invoked) = 1
  /\ invoked[1].ctrl = controllers[1]
  /\ invoked[1].outcome \in Errors
  /\ Yielding = {1}
  /\ replies = <<ErrorText>>

\* the handler returned and no reply was sent
C34_WitnessReturned ==
  /\ hi = "resolved"
  /\ Len(invoked) = 1
  /\ invoked[1].outcome = "returned"
  /\ Yielding = {1}
  /\ isRepliable(interaction)
  /\ replies = <<>>

----------------------------------------------------------------------------
(* Properties of the handlers of one event *)

\* positions in the trace where an awaited handler settled
Settlements == {i \in DOMAIN trace : trace[i].ev \in {"return", "throw"}}

\* the handlers of the event that were invoked and have not settled
InFlight == Cardinality(Invocations) - Cardinality(Settlements)

\* C35: in one message event, and in one reaction event, a handler is invoked only
\* after the handler invoked before it has settled, so at most one handler of the
\* event is in flight; while a handler is in flight, no step but its settling invokes
\* another handler of the event.
C35_OneHandlerAtATime ==
  /\ [](event.type \in {"message", "reaction"} =>
          /\ \A i, j \in Invocations : i < j => \E s \in Settlements : i < s /\ s < j
          /\ InFlight \in {0, 1}
          /\ InFlight = 1 <=> event.status = "inHandler")
  /\ [][(event.status = "inHandler" /\ Len(trace') > Len(trace)) =>
          /\ Len(trace') > Len(trace) + 1 => trace'[Len(trace) + 1].ev \in {"return", "throw"}
          /\ trace'[Len(trace) + 1].ev # "invoke"]_vars

\* the second handler of a message is in flight after the first one settled
C35_Witness ==
  /\ event.type = "message"
  /\ event.status = "inHandler"
  /\ Cardinality(Invocations) = 2
  /\ Cardinality(Settlements) = 1

\* the same for a reaction
C35_WitnessReaction ==
  /\ event.type = "reaction"
  /\ event.status = "inHandler"
  /\ Cardinality(Invocations) = 2
  /\ Cardinality(Settlements) = 1

----------------------------------------------------------------------------
(* Properties of a failed fetch *)

\* the fetch of the reaction's message failed
FetchFailed == \E i \in DOMAIN trace : trace[i].ev = "fetchFailed"

\* C36: when the fetch of the reaction's message fails, handleReaction ends with the
\* error of the fetch: it has invoked no handler and asked for no controller instance,
\* and nothing of the event is done afterwards.
C36_FetchFailurePropagates ==
  (event.type = "reaction" /\ FetchFailed) =>
     /\ event.status = "rejected"
     /\ Invocations = {}
     /\ \A i \in DOMAIN trace : trace[i].ev \notin {"get", "invoke", "error"}
     /\ trace = <<Did("fetch", "", 0, ""), Did("fetchFailed", "", 0, "")>>
     /\ ~ENABLED reactionHandlerSettles(FALSE)

\* the fetch failed for a reaction that both controllers have a handler for, while no
\* instance is cached
C36_Witness ==
  /\ event.type = "reaction"
  /\ FetchFailed
  /\ event.status = "rejected"
  /\ \A c \in Controllers :
        \E h \in Range(reactionHandlers[c]) : h.emoji \in {Undefined, Defined(event.emoji)}
  /\ cache = {}

----------------------------------------------------------------------------
(* Shutdown and the delivery of events *)

\* a dispatch of an interaction, or of a message or reaction event, begins in this step
DispatchStarts ==
  \/ hi = "idle" /\ hi' # "idle"
  \/ event.status = "idle" /\ event'.status # "idle"

\* C37: once gracefulShutdown has begun, isShuttingDown stays true and no step starts a
\* dispatch of an interaction, a message or a reaction; the dispatches in flight go on
C37_NoDispatchAfterShutdown ==
  [][isShuttingDown => isShuttingDown' /\ ~DispatchStarts]_vars

\* the shutdown has begun while a handler of an interaction and a handler of a message
\* or reaction event are in flight
C37_Witness ==
  /\ isShuttingDown
  /\ Alive
  /\ hi = "awaitHandler"
  /\ event.status = "inHandler"

\* the shutdown has begun, the process is alive and the dispatcher is idle
C37_WitnessDrained ==
  /\ isShuttingDown
  /\ Alive
  /\ hi = "idle"
  /\ event.status = "idle"
  /\ Len(trace) = 0
  /\ \E c \in DOMAIN commandMaps : commandMaps[c] # <<>>

----------------------------------------------------------------------------
(* The order of the handlers of one controller *)

\* the entries of a stored list in the order the decorators ran (the n-th decorator of a
\* controller registers method n)
RegistrationOrder(handlers) ==
  [n \in DOMAIN handlers |-> CHOOSE h \in Range(handlers) : h.method = n]

MethodsOf(handlers) == [n \in DOMAIN handlers |-> handlers[n].method]

\* the methods a message with this trimmed content is to reach in a controller: those
\* registered with the content as keyword, then those registered without a keyword,
\* each kind in registration order
MessageOrder(handlers, messageContent) ==
  MethodsOf(SelectSeq(RegistrationOrder(handlers),
                      LAMBDA h : HasKeyword(h) /\ h.keyword = Defined(messageContent))
            \o SelectSeq(RegistrationOrder(handlers), HasNoKeyword))

\* the methods of controller c invoked so far for the current event, in order
InvokedOf(c) ==
  MethodsOf(SelectSeq(trace, LAMBDA d : d.ev = "invoke" /\ d.ctrl = c))

\* C38: in every dispatch of a message, the first and every later one, the handlers of a
\* controller are invoked in this order: those with the keyword in registration order,
\* then those without a keyword in registration order; the stored list keeps each kind in
\* registration order however often it was sorted
C38_RegistrationOrderKept ==
  /\ \A c \in Controllers : \A p, q \in DOMAIN messageHandlers[c] :
       (p < q /\ HasKeyword(messageHandlers[c][p]) = HasKeyword(messageHandlers[c][q]))
         => messageHandlers[c][p].method < messageHandlers[c][q].method
  /\ MessageDispatch =>
       \A c \in Controllers :
         /\ IsPrefix(InvokedOf(c), MessageOrder(messageHandlers[c], Trim(event.content)))
         /\ event.status = "done" =>
              InvokedOf(c) = MessageOrder(messageHandlers[c], Trim(event.content))

\* a dispatch is over in which a controller whose stored list was reordered had two
\* handlers of one kind invoked
C38_Witness ==
  /\ MessageDispatch
  /\ event.status = "done"
  /\ \E c \in Controllers :
       /\ messageHandlers[c] # RegistrationOrder(messageHandlers[c])
       /\ \E p, q \in DOMAIN InvokedOf(c) :
            /\ p < q
            /\ KeywordOf(c, InvokedOf(c)[p]) = KeywordOf(c, InvokedOf(c)[q])

\* a later dispatch: the first controller's handler is in flight while the list of the
\* second controller is as an earlier dispatch has sorted it
C38_WitnessRepeated ==
  /\ MessageDispatch
  /\ event.status = "inHandler"
  /\ event.relevant[event.ci] = controllers[1]
  /\ messageHandlers[controllers[2]] # RegistrationOrder(messageHandlers[controllers[2]])
  /\ controllers[2] \in Range(event.relevant)

\* the methods a reaction with this emoji is to reach in a controller
ReactionOrder(handlers, emojiName) ==
  MethodsOf(SelectSeq(RegistrationOrder(handlers),
                      LAMBDA h : HasEmoji(h) /\ h.emoji = Defined(emojiName))
            \o SelectSeq(RegistrationOrder(handlers), HasNoEmoji))

\* the same order for the handlers of a reaction: those with the emoji in registration
\* order, then those without an emoji in registration order, in every dispatch
ReactionRegistrationOrderKept ==
  /\ \A c \in Controllers : \A p, q \in DOMAIN reactionHandlers[c] :
       (p < q /\ HasEmoji(reactionHandlers[c][p]) = HasEmoji(reactionHandlers[c][q]))
         => reactionHandlers[c][p].method < reactionHandlers[c][q].method
  /\ event.type = "reaction" =>
       \A c \in Controllers :
         /\ IsPrefix(InvokedOf(c), ReactionOrder(reactionHandlers[c], event.emoji))
         /\ event.status = "done" =>
              InvokedOf(c) = ReactionOrder(reactionHandlers[c], event.emoji)

----------------------------------------------------------------------------
(* What the dispatches leave alone *)

\* the calls of the container this step makes for a message or reaction event, each
\* followed by controllerInstancesCache.set under the key
NewGets == {i \in DOMAIN trace' : i > Len(trace) /\ trace'[i].ev = "get"}

\* C39: once the application runs, no step (a dispatch of an interaction, a message or a
\* reaction, or registerCommands) changes a command map; no step removes a key of the
\* instance cache, and an instance is stored only under a key that had none
C39_MetadataAndCacheKept ==
  [][/\ phase = "run" => commandMaps' = commandMaps
     /\ cache \subseteq cache'
     /\ \A i \in NewGets : [by |-> trace'[i].detail, of |-> trace'[i].ctrl] \notin cache]_vars

\* registerCommands has run, an interaction and a message are being handled, both on
\* cached instances, and the controller has its command
C39_Witness ==
  /\ Len(setCalls) >= 1
  /\ hi = "awaitHandler"
  /\ event.type = "message"
  /\ event.status = "inHandler"
  /\ \A i \in DOMAIN trace : trace[i].ev # "get"
  /\ \E c \in Controllers : {InteractionCacheKey(c), ClassCacheKey(c)} \subseteq cache
  /\ commandMaps[controllers[1]] # <<>>

============================================================================
